---- MODULE Spec2Model ----
(***************************************************************************)
(* Model of the onboarding step engine and the bulk-import orchestrator of *)
(* backend/main.py, over a transactional relational store.                 *)
(*                                                                         *)
(* Text values are sequences of tokens (a token is an atomic piece of      *)
(* text; the delimiters ":" "-" and " " are tokens of their own), so that  *)
(* split / strip / lower are computed as the code computes them.           *)
(* A handler is a sequence of steps (its statements); pc[p] is the         *)
(* position of request p inside its handler.  The statements of a          *)
(* transaction write to tx[p]; commit applies tx[p] to db, rollback drops  *)
(* it.  obs is the record an observer of client 1 keeps of its requests:   *)
(* the tables before the request, the rows the request wrote, its response *)
(* and the request before it.                                              *)
(***************************************************************************)
EXTENDS Integers, Sequences, FiniteSets, TLC

VARIABLES db, seq, pc, call, tx, obs

vars == <<db, seq, pc, call, tx, obs>>

(***************************************************************************)
(* Bounds of the model                                                     *)
(***************************************************************************)
MaxBusinesses == 1
MaxHourRows == 3

Procs == {1, 2}

(***************************************************************************)
(* Text helpers                                                            *)
(***************************************************************************)
None == <<"None">>

S(tok) == <<tok>>

\* Python truthiness of an Optional[str]: None and "" are falsy
Truthy(s) == s /= None /\ s /= <<>>

RECURSIVE CountTok(_, _)
CountTok(s, sep) ==
    IF s = <<>> THEN 0
    ELSE (IF Head(s) = sep THEN 1 ELSE 0) + CountTok(Tail(s), sep)

\* index of the first occurrence of sep in s, 0 if there is none
RECURSIVE FirstTok(_, _, _)
FirstTok(s, sep, i) ==
    IF i > Len(s) THEN 0
    ELSE IF s[i] = sep THEN i
    ELSE FirstTok(s, sep, i + 1)

\* str.split(sep): the pieces between the occurrences of sep
RECURSIVE Split(_, _)
Split(s, sep) ==
    LET i == FirstTok(s, sep, 1) IN
    IF i = 0 THEN <<s>>
    ELSE <<SubSeq(s, 1, i - 1)>> \o Split(SubSeq(s, i + 1, Len(s)), sep)

\* str.strip(): drop leading and trailing blanks
RECURSIVE Strip(_)
Strip(s) ==
    IF s = <<>> THEN s
    ELSE IF Head(s) = " " THEN Strip(Tail(s))
    ELSE IF s[Len(s)] = " " THEN Strip(SubSeq(s, 1, Len(s) - 1))
    ELSE s

LowerTok(t) ==
    CASE t = "Closed" -> "closed"
      [] t = "CLOSED" -> "closed"
      [] t = "Cafe" -> "cafe"
      [] t = "Bar" -> "bar"
      [] OTHER -> t

\* str.lower()
Lower(s) == [i \in 1..Len(s) |-> LowerTok(s[i])]

(***************************************************************************)
(* The store                                                               *)
(***************************************************************************)
Tables == {"businesses", "business_locations", "business_location_opening_hours",
           "business_web_links", "business_images", "business_feature_proposals"}

EmptyTables == [t \in Tables |-> {}]

EmptyTx == [ins |-> EmptyTables, del |-> EmptyTables]

\* the catalog tables are not written by any operation of the core
business_categories ==
    {[id |-> 1, category |-> S("Cafe")], [id |-> 2, category |-> S("Bar")]}

business_features ==
    {[id |-> 1, feature |-> S("wifi")], [id |-> 2, feature |-> S("parking")]}

\* commit: the rows deleted and inserted by a transaction become visible together
Apply(d, t) == [tb \in Tables |-> (d[tb] \ t.del[tb]) \cup t.ins[tb]]

\* what a statement of p reads: the committed rows and p's own pending writes
View(p) == Apply(db, tx[p])

\* INSERT ... RETURNING id: the next value of the table's id sequence
NextId(tb) == seq[tb] + 1

Insert(t, tb, row) == [t EXCEPT !.ins[tb] = @ \cup {row}]

Delete(t, tb, rows) ==
    [t EXCEPT !.ins[tb] = @ \ rows, !.del[tb] = @ \cup (rows \cap db[tb])]

\* an UPDATE of rows that another open transaction has updated or deleted
\* waits for that transaction to end
RowLocked(p, tb, rows) ==
    \E q \in Procs \ {p} : tx[q].del[tb] \cap rows /= {}

\* a store without the uniqueness constraint
LocationKeyTaken_Unconstrained(row) == FALSE

\* uniqueness of (business_id, location_index), enforced by the store:
\* an insert of a key that a committed row has is rejected
LocationKeyTaken(row) ==
    \E l \in db["business_locations"] :
        l.business_id = row.business_id /\ l.location_index = row.location_index

\* ... and an insert of a key that another open transaction has inserted
\* waits for that transaction to end
LocationKeyPending(p, row) ==
    \E q \in Procs \ {p} : \E l \in tx[q].ins["business_locations"] :
        l.business_id = row.business_id /\ l.location_index = row.location_index

(***************************************************************************)
(* Requests and responses                                                  *)
(***************************************************************************)
NoGeo == [kind |-> "none", lng |-> 0, lat |-> 0, place_name |-> None]

NoCall == [op |-> "none", req |-> <<>>, business_id |-> 0, location_id |-> 0,
           category_id |-> 0, geo |-> NoGeo, location_name |-> None,
           hours |-> <<>>, status |-> 0, error |-> "none",
           geocoded |-> 0, commits |-> 0, existing |-> 0, result |-> <<>>,
           conn |-> "none", rows |-> EmptyTables]

NewCall(op, req, business_id) ==
    [NoCall EXCEPT !.op = op, !.req = req, !.business_id = business_id,
                   !.conn = "open"]

\* what the observer remembers of the request before
Summary(c) == [op |-> c.op, business_id |-> c.business_id,
               location_id |-> c.location_id, status |-> c.status,
               entries |-> IF c.op = "add_business_opening_hours"
                           THEN Len(c.req) ELSE 0,
               payload |-> IF c.op \in {"add_business_social_links",
                                        "add_business_logo",
                                        "add_business_opening_hours"}
                           THEN c.req ELSE <<>>,
               row_id |-> c.existing]

NoObs == [on |-> TRUE, last |-> NoCall, pre |-> EmptyTables,
          written |-> EmptyTables, prev |-> Summary(NoCall)]

\* the rows client 1 has written so far in this request
Written(w) == [tb \in Tables |-> w[tb] \cup tx'[1].ins[tb] \cup (db'[tb] \ db[tb])]

\* the request before is remembered when it succeeded and the new one repeats
\* it (the same operation on the same business) or reads back its links or
\* its opening hours
Repeats(c, new) ==
    /\ c.status = 200
    /\ \/ c.op = new.op /\ c.business_id = new.business_id
       \/ /\ c.op \in {"add_business_social_links", "add_business_opening_hours"}
          /\ new.op = "get_businesses"

\* the observer's record after a step of client p
Observe(p) ==
    obs' = IF ~ obs.on \/ p /= 1 THEN obs
           ELSE IF pc[1] = "idle" /\ pc'[1] /= "idle"
           THEN [on |-> TRUE,
                 last |-> IF pc'[1] = "return" THEN call'[1] ELSE NoCall,
                 pre |-> db, written |-> Written(EmptyTables),
                 prev |-> IF Repeats(obs.last, call'[1])
                          THEN Summary(obs.last) ELSE Summary(NoCall)]
           ELSE IF pc'[1] = "return"
           THEN [obs EXCEPT !.last = call'[1], !.written = Written(@)]
           ELSE [obs EXCEPT !.written = Written(@)]

\* the handler is entered: get_db_connection(), conn.autocommit = False
Begin(p, op, req, business_id, first) ==
    /\ pc[p] = "idle"
    /\ pc' = [pc EXCEPT ![p] = first]
    /\ call' = [call EXCEPT ![p] = NewCall(op, req, business_id)]
    /\ tx' = [tx EXCEPT ![p] = EmptyTx]
    /\ UNCHANGED <<db, seq>>
    /\ Observe(p)

\* raise HTTPException(status): the handler's except clause will roll back
Raise(p, status, error) ==
    /\ pc' = [pc EXCEPT ![p] = "return"]
    /\ call' = [call EXCEPT ![p].status = status, ![p].error = error]
    /\ UNCHANGED db

\* a statement raises a storage error: except Exception -> 500
StorageFailure(p, at) ==
    /\ pc[p] = at
    /\ Raise(p, 500, "storage")
    /\ UNCHANGED <<seq, tx>>
    /\ Observe(p)

\* conn.commit() and return
Commit(p, at) ==
    /\ pc[p] = at
    /\ db' = Apply(db, tx[p])
    /\ pc' = [pc EXCEPT ![p] = "return"]
    /\ call' = [call EXCEPT ![p].status = 200, ![p].commits = @ + 1]
    /\ tx' = [tx EXCEPT ![p] = EmptyTx]
    /\ UNCHANGED seq
    /\ Observe(p)

\* Return without the rollback: what the request wrote stays
Return_KeepsWrites(p) ==
    /\ pc[p] = "return"
    /\ pc' = [pc EXCEPT ![p] = "idle"]
    /\ call' = [call EXCEPT ![p] = NoCall]
    /\ db' = Apply(db, tx[p])
    /\ tx' = [tx EXCEPT ![p] = EmptyTx]
    /\ UNCHANGED seq
    /\ Observe(p)

\* except: conn.rollback(); finally: conn.close(); the response is sent
Return(p) ==
    /\ pc[p] = "return"
    /\ pc' = [pc EXCEPT ![p] = "idle"]
    /\ call' = [call EXCEPT ![p] = NoCall]
    /\ tx' = [tx EXCEPT ![p] = EmptyTx]
    /\ UNCHANGED <<db, seq>>
    /\ Observe(p)

\* the handlers whose finally clause is "conn.autocommit = True; conn.close()"
ResetsAutocommit ==
    {"add_business_location", "add_business_opening_hours", "bulk_import_business"}

\* the cleanup of such a handler when the connection is lost: conn.autocommit
\* = True raises (after a conn.rollback() that may have raised too),
\* conn.close() is not reached, and the request is answered 500 with the
\* connection still open
CleanupFailure(p) ==
    /\ pc[p] = "return"
    /\ call[p].op \in ResetsAutocommit
    /\ pc' = [pc EXCEPT ![p] = "idle"]
    /\ call' = [call EXCEPT ![p] = [NoCall EXCEPT !.conn = "open"]]
    /\ tx' = [tx EXCEPT ![p] = EmptyTx]
    /\ UNCHANGED <<db, seq>>
    /\ Observe(p)

BusinessIds == 1..(MaxBusinesses + 1)

BusinessExists(d, business_id) ==
    \E b \in d["businesses"] : b.id = business_id

PrimaryLocations(d, business_id) ==
    {l \in d["business_locations"] :
        l.business_id = business_id /\ l.location_index = 1}

HoursOf(d, location_id) ==
    {h \in d["business_location_opening_hours"] : h.location_id = location_id}

(***************************************************************************)
(* POST /businesses/identity                                               *)
(***************************************************************************)
IdentityRequests ==
    {[name |-> S("Joe's Diner"), category_id |-> c] : c \in {1, 3}}

BusinessRow(id, name, category_id) ==
    [id |-> id, name |-> name, category_id |-> category_id, is_verified |-> FALSE]

\* the insert without the look for the category
create_business_identity_AnyCategory(p, req) ==
    /\ pc[p] = "idle"
    /\ seq["businesses"] < MaxBusinesses
    /\ pc' = [pc EXCEPT ![p] = "return"]
    /\ LET row == BusinessRow(NextId("businesses"), req.name, req.category_id)
       IN /\ db' = [db EXCEPT !["businesses"] = @ \cup {row}]
          /\ seq' = [seq EXCEPT !["businesses"] = row.id]
          /\ UNCHANGED tx
          /\ call' = [call EXCEPT ![p] =
                [NewCall("create_business_identity", req, row.id) EXCEPT
                    !.status = 200, !.commits = 1]]
    /\ Observe(p)

create_business_identity(p, req) ==
    /\ pc[p] = "idle"
    /\ seq["businesses"] < MaxBusinesses
    /\ pc' = [pc EXCEPT ![p] = "return"]
    /\ IF ~ \E c \in business_categories : c.id = req.category_id
       THEN /\ call' = [call EXCEPT ![p] =
                  [NewCall("create_business_identity", req, 0) EXCEPT
                      !.status = 404, !.error = "category"]]
            /\ UNCHANGED <<db, seq, tx>>
       ELSE LET row == BusinessRow(NextId("businesses"), req.name, req.category_id)
            IN \/ /\ db' = [db EXCEPT !["businesses"] = @ \cup {row}]
                  /\ seq' = [seq EXCEPT !["businesses"] = row.id]
                  /\ UNCHANGED tx
                  /\ call' = [call EXCEPT ![p] =
                        [NewCall("create_business_identity", req, row.id) EXCEPT
                            !.status = 200, !.commits = 1]]
               \/ /\ call' = [call EXCEPT ![p] =
                        [NewCall("create_business_identity", req, 0) EXCEPT
                            !.status = 500, !.error = "storage"]]
                  /\ UNCHANGED <<db, seq, tx>>
    /\ Observe(p)

(***************************************************************************)
(* POST /businesses/{business_id}/location                                 *)
(***************************************************************************)
LocationRequests ==
    {[latitude |-> 52, longitude |-> 0, location_name |-> S("Market Square")],
     [latitude |-> 10, longitude |-> 20, location_name |-> None]}

LocationRow(id, business_id, lng, lat, name) ==
    [id |-> id, business_id |-> business_id, longitude |-> lng, latitude |-> lat,
     location_name |-> name, location_index |-> 1, is_public |-> TRUE]

add_business_location_begin(p, business_id, req) ==
    /\ seq["business_locations"] < MaxBusinesses + 1
    /\ Begin(p, "add_business_location", req, business_id, "al_check")

\* the guard without the lookup of an existing primary location
add_business_location_check_NoConflict(p) ==
    /\ pc[p] = "al_check"
    /\ UNCHANGED <<seq, tx>>
    /\ IF ~ BusinessExists(View(p), call[p].business_id)
       THEN Raise(p, 404, "business")
       ELSE /\ pc' = [pc EXCEPT ![p] = "al_insert"]
            /\ UNCHANGED <<db, call>>
    /\ Observe(p)

\* the guard without the lookup of the business
add_business_location_check_AnyBusiness(p) ==
    /\ pc[p] = "al_check"
    /\ UNCHANGED <<seq, tx>>
    /\ IF PrimaryLocations(View(p), call[p].business_id) /= {}
       THEN Raise(p, 400, "conflict")
       ELSE /\ pc' = [pc EXCEPT ![p] = "al_insert"]
            /\ UNCHANGED <<db, call>>
    /\ Observe(p)

add_business_location_check(p) ==
    /\ pc[p] = "al_check"
    /\ UNCHANGED <<seq, tx>>
    /\ IF ~ BusinessExists(View(p), call[p].business_id)
       THEN Raise(p, 404, "business")
       ELSE IF PrimaryLocations(View(p), call[p].business_id) /= {}
       THEN Raise(p, 400, "conflict")
       ELSE /\ pc' = [pc EXCEPT ![p] = "al_insert"]
            /\ UNCHANGED <<db, call>>
    /\ Observe(p)

add_business_location_insert(p) ==
    /\ pc[p] = "al_insert"
    /\ LET row == LocationRow(NextId("business_locations"), call[p].business_id,
                              call[p].req.longitude, call[p].req.latitude,
                              call[p].req.location_name)
       IN /\ ~ LocationKeyPending(p, row)
          /\ IF LocationKeyTaken(row)
             THEN Raise(p, 500, "unique") /\ UNCHANGED <<seq, tx>>
             ELSE /\ tx' = [tx EXCEPT ![p] = Insert(@, "business_locations", row)]
                  /\ seq' = [seq EXCEPT !["business_locations"] = row.id]
                  /\ call' = [call EXCEPT ![p].location_id = row.id]
                  /\ pc' = [pc EXCEPT ![p] = "al_commit"]
                  /\ UNCHANGED db
    /\ Observe(p)

add_business_location_commit(p) == Commit(p, "al_commit")

add_business_location_error(p) ==
    \/ StorageFailure(p, "al_check")
    \/ StorageFailure(p, "al_insert")
    \/ StorageFailure(p, "al_commit")

(***************************************************************************)
(* POST /businesses/{business_id}/opening-hours                            *)
(***************************************************************************)
T0900 == <<"09", ":", "00">>
T1700 == <<"17", ":", "00">>
T1000s == <<"10", ":", "00", ":", "00">>
T1800s == <<"18", ":", "00", ":", "00">>

HourEntry(d, o, c, closed) ==
    [day_of_week |-> d, open_time |-> o, close_time |-> c, is_closed |-> closed]

HoursRequests ==
    {<<>>,
     <<HourEntry(1, T0900, T1700, FALSE)>>,
     <<HourEntry(1, T1000s, T1800s, FALSE), HourEntry(1, None, None, TRUE)>>,
     <<HourEntry(2, T0900, T1700, TRUE), HourEntry(7, T0900, T1700, FALSE)>>,
     <<HourEntry(-1, None, None, TRUE), HourEntry(3, T0900, T1700, FALSE)>>,
     <<HourEntry(0, <<>>, None, FALSE), HourEntry(6, T0900, T1800s, FALSE)>>}

\* hour.open_time if len(hour.open_time.split(':')) == 3 else f"{hour.open_time}:00"
WithSeconds(t) == IF Len(Split(t, ":")) = 3 THEN t ELSE t \o <<":", "00">>

HoursRow(id, location_id, day, open, close, closed) ==
    [id |-> id, location_id |-> location_id, day_of_week |-> day,
     open_time |-> open, close_time |-> close, is_closed |-> closed]

\* the values the handler binds to the INSERT for one request entry
OpeningHourValues(id, location_id, hour) ==
    HoursRow(id, location_id, hour.day_of_week,
             IF ~ hour.is_closed /\ Truthy(hour.open_time)
                 THEN WithSeconds(hour.open_time) ELSE None,
             IF ~ hour.is_closed /\ Truthy(hour.close_time)
                 THEN WithSeconds(hour.close_time) ELSE None,
             hour.is_closed)

\* the range check off by one
InvalidDay_UpTo7(hour) == hour.day_of_week < 0 \/ hour.day_of_week > 7

InvalidDay(hour) == hour.day_of_week < 0 \/ hour.day_of_week > 6

\* the position of the first entry the loop rejects, 0 if it rejects none
FirstInvalidDay(entries) ==
    IF \E i \in 1..Len(entries) : InvalidDay(entries[i])
    THEN CHOOSE i \in 1..Len(entries) :
            /\ InvalidDay(entries[i])
            /\ \A j \in 1..(i - 1) : ~ InvalidDay(entries[j])
    ELSE 0

\* the rows the loop has inserted when it has run through the first n entries
InsertedHours(entries, n, location_id) ==
    {OpeningHourValues(seq["business_location_opening_hours"] + i, location_id,
                       entries[i]) : i \in 1..n}

add_business_opening_hours_begin(p, business_id, req) ==
    /\ seq["business_location_opening_hours"] + Len(req) <= MaxHourRows
    /\ Begin(p, "add_business_opening_hours", req, business_id, "oh_check")

\* the guard without the lookup of the business
add_business_opening_hours_check_NoBusiness(p) ==
    /\ pc[p] = "oh_check"
    /\ UNCHANGED <<seq, tx>>
    /\ IF PrimaryLocations(View(p), call[p].business_id) = {}
       THEN Raise(p, 400, "location")
       ELSE \E l \in PrimaryLocations(View(p), call[p].business_id) :
               /\ call' = [call EXCEPT ![p].location_id = l.id]
               /\ pc' = [pc EXCEPT ![p] = "oh_delete"]
               /\ UNCHANGED db
    /\ Observe(p)

\* the guard without the lookup of the primary location
add_business_opening_hours_check_NoLocation(p) ==
    /\ pc[p] = "oh_check"
    /\ UNCHANGED <<seq, tx>>
    /\ IF ~ BusinessExists(View(p), call[p].business_id)
       THEN Raise(p, 404, "business")
       ELSE /\ call' = [call EXCEPT ![p].location_id = call[p].business_id]
            /\ pc' = [pc EXCEPT ![p] = "oh_delete"]
            /\ UNCHANGED db
    /\ Observe(p)

add_business_opening_hours_check(p) ==
    /\ pc[p] = "oh_check"
    /\ UNCHANGED <<seq, tx>>
    /\ IF ~ BusinessExists(View(p), call[p].business_id)
       THEN Raise(p, 404, "business")
       ELSE IF PrimaryLocations(View(p), call[p].business_id) = {}
       THEN Raise(p, 400, "location")
       ELSE \E l \in PrimaryLocations(View(p), call[p].business_id) :
               /\ call' = [call EXCEPT ![p].location_id = l.id]
               /\ pc' = [pc EXCEPT ![p] = "oh_delete"]
               /\ UNCHANGED db
    /\ Observe(p)

\* the handler without the DELETE: a merge instead of a replace
add_business_opening_hours_delete_Missing(p) ==
    /\ pc[p] = "oh_delete"
    /\ pc' = [pc EXCEPT ![p] = "oh_insert"]
    /\ UNCHANGED <<db, seq, call, tx>>
    /\ Observe(p)

\* the DELETE skipped when the request has no entries
add_business_opening_hours_delete_UnlessEmpty(p) ==
    /\ pc[p] = "oh_delete"
    /\ tx' = IF call[p].req = <<>> THEN tx
             ELSE [tx EXCEPT ![p] = Delete(@, "business_location_opening_hours",
                                           HoursOf(View(p), call[p].location_id))]
    /\ pc' = [pc EXCEPT ![p] = "oh_insert"]
    /\ UNCHANGED <<db, seq, call>>
    /\ Observe(p)

\* the DELETE taking the business along with the hours of its location
add_business_opening_hours_delete_Business(p) ==
    /\ pc[p] = "oh_delete"
    /\ tx' = [tx EXCEPT ![p] =
                Delete(Delete(@, "business_location_opening_hours",
                              HoursOf(View(p), call[p].location_id)),
                       "businesses",
                       {b \in db["businesses"] : b.id = call[p].business_id})]
    /\ pc' = [pc EXCEPT ![p] = "oh_insert"]
    /\ UNCHANGED <<db, seq, call>>
    /\ Observe(p)

add_business_opening_hours_delete(p) ==
    /\ pc[p] = "oh_delete"
    /\ tx' = [tx EXCEPT ![p] = Delete(@, "business_location_opening_hours",
                                      HoursOf(View(p), call[p].location_id))]
    /\ pc' = [pc EXCEPT ![p] = "oh_insert"]
    /\ UNCHANGED <<db, seq, call>>
    /\ Observe(p)

\* the loop over request.opening_hours: validate, convert, insert
add_business_opening_hours_insert(p) ==
    /\ pc[p] = "oh_insert"
    /\ LET entries == call[p].req
           bad == FirstInvalidDay(entries)
           n == IF bad = 0 THEN Len(entries) ELSE bad - 1
           rows == InsertedHours(entries, n, call[p].location_id)
       IN /\ tx' = [tx EXCEPT ![p].ins["business_location_opening_hours"] = @ \cup rows]
          /\ seq' = [seq EXCEPT !["business_location_opening_hours"] = @ + n]
          /\ IF bad /= 0
             THEN Raise(p, 400, "day_of_week")
             ELSE /\ pc' = [pc EXCEPT ![p] = "oh_commit"]
                  /\ UNCHANGED <<db, call>>
    /\ Observe(p)

\* the k-th INSERT of the loop raises a storage error
add_business_opening_hours_insert_error(p) ==
    /\ pc[p] = "oh_insert"
    /\ LET entries == call[p].req
           bad == FirstInvalidDay(entries)
           n == IF bad = 0 THEN Len(entries) ELSE bad - 1
       IN \E k \in 1..n :
            /\ tx' = [tx EXCEPT ![p].ins["business_location_opening_hours"] =
                        @ \cup InsertedHours(entries, k - 1, call[p].location_id)]
            /\ seq' = [seq EXCEPT !["business_location_opening_hours"] = @ + (k - 1)]
            /\ Raise(p, 500, "storage")
    /\ Observe(p)

add_business_opening_hours_commit(p) == Commit(p, "oh_commit")

add_business_opening_hours_error(p) ==
    \/ StorageFailure(p, "oh_check")
    \/ StorageFailure(p, "oh_delete")
    \/ StorageFailure(p, "oh_commit")

(***************************************************************************)
(* Geocoding helper and opening hours parser for the CSV format            *)
(***************************************************************************)
\* what the geocoding request can come to for an address: a first feature
\* (lng, lat, place_name), no feature, a failed request, a missing token
geocode_address(address) ==
    {[NoGeo EXCEPT !.kind = "request_error"], [NoGeo EXCEPT !.kind = "no_token"]}
    \cup (IF address = S("zzzz-invalid")
          THEN {[NoGeo EXCEPT !.kind = "no_match"]}
          ELSE {[kind |-> "ok", lng |-> 1, lat |-> 52,
                 place_name |-> S("Market Hill, Cambridge")]})

DAY_MAP(day_name) ==
    CASE day_name = "Sun" -> 0
      [] day_name = "Mon" -> 1
      [] day_name = "Tue" -> 2
      [] day_name = "Wed" -> 3
      [] day_name = "Thu" -> 4
      [] day_name = "Fri" -> 5
      [] day_name = "Sat" -> 6

\* the loop over days without time_str.lower()
ParseDay_CaseSensitive(day_name, time_str) ==
    IF ~ Truthy(time_str) \/ Strip(time_str) = <<>> THEN <<>>
    ELSE LET s == Strip(time_str) IN
         IF s = S("closed")
         THEN <<HourEntry(DAY_MAP(day_name), None, None, TRUE)>>
         ELSE LET parts == Split(s, "-") IN
              IF Len(parts) /= 2 THEN <<>>
              ELSE <<HourEntry(DAY_MAP(day_name), WithSeconds(Strip(parts[1])),
                               WithSeconds(Strip(parts[2])), FALSE)>>

\* one iteration of the loop over days: the entries it appends to results
ParseDay(day_name, time_str) ==
    IF ~ Truthy(time_str) \/ Strip(time_str) = <<>> THEN <<>>
    ELSE LET s == Strip(time_str) IN
         IF Lower(s) = S("closed")
         THEN <<HourEntry(DAY_MAP(day_name), None, None, TRUE)>>
         ELSE LET parts == Split(s, "-") IN
              IF Len(parts) /= 2 THEN <<>>
              ELSE <<HourEntry(DAY_MAP(day_name), WithSeconds(Strip(parts[1])),
                               WithSeconds(Strip(parts[2])), FALSE)>>

parse_opening_hours_csv(r) ==
    ParseDay("Mon", r.oh_monday) \o ParseDay("Tue", r.oh_tuesday)
    \o ParseDay("Wed", r.oh_wednesday) \o ParseDay("Thu", r.oh_thursday)
    \o ParseDay("Fri", r.oh_friday) \o ParseDay("Sat", r.oh_saturday)
    \o ParseDay("Sun", r.oh_sunday)

(***************************************************************************)
(* POST /businesses/bulk-import                                            *)
(***************************************************************************)
\* the number of day columns of one row that are filled in
MaxDayStrings == 2

\* values of one "OH <Weekday>" column
DayStrings ==
    {None, <<>>, <<" ">>,
     <<"09", ":", "00", "-", "17", ":", "00">>,
     <<" ", "09", ":", "00", " ", "-", " ", "17", ":", "00", ":", "00", " ">>,
     S("closed"), <<" ", "Closed", " ">>, S("CLOSED"),
     S("abc"),
     <<"09", ":", "00", "-", "12", ":", "00", "-", "13", ":", "00">>,
     <<"abc", "-", "def">>,
     <<"-">>}

DayColumns ==
    {"oh_monday", "oh_tuesday", "oh_wednesday", "oh_thursday", "oh_friday",
     "oh_saturday", "oh_sunday"}

BulkRow ==
    [name |-> S("Corner Cafe"), category |-> S("Cafe"), address |-> S("1 Market Hill"),
     location_name |-> None, website |-> None, x_url |-> None, instagram_url |-> None,
     facebook_url |-> None, tiktok_url |-> None, logo_url |-> None,
     oh_monday |-> None, oh_tuesday |-> None, oh_wednesday |-> None,
     oh_thursday |-> None, oh_friday |-> None, oh_saturday |-> None,
     oh_sunday |-> None, features |-> <<>>]

BulkRequests ==
    {[BulkRow EXCEPT !.website = S("http://corner.example"), !.x_url = <<>>,
                     !.logo_url = S("http://corner.example/logo.png"),
                     !.oh_monday = <<"09", ":", "00", "-", "17", ":", "00">>,
                     !.oh_tuesday = S("abc"),
                     !.oh_sunday = <<" ", "Closed">>,
                     !.features = <<S("wifi"), S("sauna"), <<>>>>],
     [BulkRow EXCEPT !.category = S("cafe")],
     [BulkRow EXCEPT !.address = S("zzzz-invalid")],
     [BulkRow EXCEPT !.name = S("The Bar"), !.category = S("Bar"),
                     !.location_name = S("Upstairs")]}

\* rows of the import sheet that differ in their optional columns
ImportRequests ==
    {BulkRow,
     [BulkRow EXCEPT !.category = S("cafe"),
                     !.oh_monday = <<"abc", "-", "def">>],
     [BulkRow EXCEPT !.address = S("zzzz-invalid"), !.oh_tuesday = S("abc"),
                     !.website = S("http://corner.example")],
     [BulkRow EXCEPT !.website = S("http://corner.example"), !.x_url = <<>>,
                     !.logo_url = S("http://corner.example/logo.png"),
                     !.oh_monday = <<"09", ":", "00", "-", "17", ":", "00">>,
                     !.oh_tuesday = S("abc"),
                     !.oh_sunday = <<" ", "Closed">>,
                     !.features = <<S("wifi"), S("sauna"), <<>>>>],
     [BulkRow EXCEPT !.oh_monday = <<"abc", "-", "def">>,
                     !.oh_friday = <<"09", ":", "00", "-", "17", ":", "00">>],
     [BulkRow EXCEPT !.oh_monday = <<"09", ":", "00", "-", "12", ":", "00", "-",
                                     "13", ":", "00">>,
                     !.oh_saturday = S("closed"),
                     !.tiktok_url = S("http://tiktok.example/corner"),
                     !.logo_url = <<>>,
                     !.features = <<S("sauna"), <<" ">>>>],
     [BulkRow EXCEPT !.website = <<>>, !.x_url = <<>>, !.instagram_url = <<>>,
                     !.facebook_url = <<>>, !.tiktok_url = <<>>,
                     !.logo_url = S("http://corner.example/logo.png"),
                     !.features = <<<<" ", "wifi", " ">>, S("parking")>>]}

\* the feature ids for which the loop over request.features inserts a proposal
RECURSIVE MatchedFeatures(_)
MatchedFeatures(names) ==
    IF names = <<>> THEN <<>>
    ELSE LET feature_name == Head(names)
             found == {f \in business_features : f.feature = Strip(feature_name)}
         IN (IF ~ Truthy(feature_name) \/ Strip(feature_name) = <<>> \/ found = {}
             THEN <<>>
             ELSE <<(CHOOSE f \in found : TRUE).id>>)
            \o MatchedFeatures(Tail(names))

\* the rows of the import sheet that differ in their day columns only
DayRow(days) ==
    [c \in DOMAIN BulkRow |-> IF c \in DOMAIN days THEN days[c] ELSE BulkRow[c]]

\* the parser applied to the day columns of a row
parse_opening_hours_csv_call(p) ==
    /\ pc[p] = "idle"
    /\ call[p].op = "parse_opening_hours_csv"
    /\ call' = [call EXCEPT ![p].hours = parse_opening_hours_csv(call[p].req)]
    /\ pc' = [pc EXCEPT ![p] = "return"]
    /\ UNCHANGED <<db, seq, tx, obs>>

bulk_import_business_begin(p, req) ==
    /\ seq["businesses"] < MaxBusinesses
    /\ seq["business_location_opening_hours"] + Len(parse_opening_hours_csv(req))
           <= MaxHourRows
    /\ Begin(p, "bulk_import_business", req, 0, "bi_category")

\* the lookup ignoring letter case
ResolveCategory_IgnoreCase(name) ==
    {c \in business_categories : Lower(c.category) = Lower(name)}

\* 1. Resolve category by name
ResolveCategory(name) == {c \in business_categories : c.category = name}

bulk_import_business_category(p) ==
    /\ pc[p] = "bi_category"
    /\ UNCHANGED <<seq, tx>>
    /\ IF ResolveCategory(call[p].req.category) = {}
       THEN Raise(p, 404, "category")
       ELSE \E c \in ResolveCategory(call[p].req.category) :
               /\ call' = [call EXCEPT ![p].category_id = c.id]
               /\ pc' = [pc EXCEPT ![p] = "bi_geocode"]
               /\ UNCHANGED db
    /\ Observe(p)

\* the geocoding error swallowed: the import goes on at (0, 0)
bulk_import_business_geocode_Swallow(p) ==
    /\ pc[p] = "bi_geocode"
    /\ UNCHANGED <<db, seq, tx>>
    /\ \E g \in geocode_address(call[p].req.address) :
          /\ pc' = [pc EXCEPT ![p] = "bi_business"]
          /\ call' = [call EXCEPT
                ![p].geocoded = @ + 1,
                ![p].geo = g,
                ![p].location_name =
                    IF Truthy(call[p].req.location_name)
                    THEN call[p].req.location_name ELSE g.place_name]
    /\ Observe(p)

\* the geocoding tried a second time when it has failed
bulk_import_business_geocode_Retry(p) ==
    /\ pc[p] = "bi_geocode"
    /\ UNCHANGED <<db, seq, tx>>
    /\ \E g \in geocode_address(call[p].req.address) :
          IF g.kind /= "ok" /\ call[p].geocoded = 0
          THEN /\ pc' = pc
               /\ call' = [call EXCEPT ![p].geocoded = @ + 1, ![p].geo = g]
          ELSE IF g.kind /= "ok"
          THEN /\ pc' = [pc EXCEPT ![p] = "return"]
               /\ call' = [call EXCEPT ![p].status = 400, ![p].error = "geocode",
                                      ![p].geocoded = @ + 1, ![p].geo = g]
          ELSE /\ pc' = [pc EXCEPT ![p] = "bi_business"]
               /\ call' = [call EXCEPT
                     ![p].geocoded = @ + 1,
                     ![p].geo = g,
                     ![p].location_name =
                         IF Truthy(call[p].req.location_name)
                         THEN call[p].req.location_name ELSE g.place_name]
    /\ Observe(p)

\* 2. Geocode address
bulk_import_business_geocode(p) ==
    /\ pc[p] = "bi_geocode"
    /\ UNCHANGED <<db, seq, tx>>
    /\ \E g \in geocode_address(call[p].req.address) :
          IF g.kind /= "ok"
          THEN /\ pc' = [pc EXCEPT ![p] = "return"]
               /\ call' = [call EXCEPT ![p].status = 400, ![p].error = "geocode",
                                      ![p].geocoded = @ + 1, ![p].geo = g]
          ELSE /\ pc' = [pc EXCEPT ![p] = "bi_business"]
               /\ call' = [call EXCEPT
                     ![p].geocoded = @ + 1,
                     ![p].geo = g,
                     ![p].location_name =
                         IF Truthy(call[p].req.location_name)
                         THEN call[p].req.location_name ELSE g.place_name]
    /\ Observe(p)

\* 3. Insert business
bulk_import_business_business(p) ==
    /\ pc[p] = "bi_business"
    /\ LET row == BusinessRow(NextId("businesses"), call[p].req.name,
                              call[p].category_id)
       IN /\ tx' = [tx EXCEPT ![p] = Insert(@, "businesses", row)]
          /\ seq' = [seq EXCEPT !["businesses"] = row.id]
          /\ call' = [call EXCEPT ![p].business_id = row.id]
    /\ pc' = [pc EXCEPT ![p] = "bi_location"]
    /\ UNCHANGED db
    /\ Observe(p)

\* the location inserted as a second location of the business
bulk_import_business_location_Secondary(p) ==
    /\ pc[p] = "bi_location"
    /\ LET row == [LocationRow(NextId("business_locations"), call[p].business_id,
                               call[p].geo.lng, call[p].geo.lat,
                               call[p].location_name) EXCEPT !.location_index = 2]
       IN /\ tx' = [tx EXCEPT ![p] = Insert(@, "business_locations", row)]
          /\ seq' = [seq EXCEPT !["business_locations"] = row.id]
          /\ call' = [call EXCEPT ![p].location_id = row.id]
          /\ pc' = [pc EXCEPT ![p] = "bi_hours"]
          /\ UNCHANGED db
    /\ Observe(p)

\* 4. Insert location
bulk_import_business_location(p) ==
    /\ pc[p] = "bi_location"
    /\ LET row == LocationRow(NextId("business_locations"), call[p].business_id,
                              call[p].geo.lng, call[p].geo.lat, call[p].location_name)
       IN /\ ~ LocationKeyPending(p, row)
          /\ IF LocationKeyTaken(row)
             THEN Raise(p, 500, "unique") /\ UNCHANGED <<seq, tx>>
             ELSE /\ tx' = [tx EXCEPT ![p] = Insert(@, "business_locations", row)]
                  /\ seq' = [seq EXCEPT !["business_locations"] = row.id]
                  /\ call' = [call EXCEPT ![p].location_id = row.id]
                  /\ pc' = [pc EXCEPT ![p] = "bi_hours"]
                  /\ UNCHANGED db
    /\ Observe(p)

\* the rows the loop over opening_hours has inserted after n entries
ImportedHours(entries, n, location_id) ==
    {HoursRow(seq["business_location_opening_hours"] + i, location_id,
              entries[i].day_of_week, entries[i].open_time, entries[i].close_time,
              entries[i].is_closed) : i \in 1..n}

\* 5. Insert opening hours
bulk_import_business_hours(p) ==
    /\ pc[p] = "bi_hours"
    /\ LET opening_hours == parse_opening_hours_csv(call[p].req)
           rows == ImportedHours(opening_hours, Len(opening_hours), call[p].location_id)
       IN /\ tx' = [tx EXCEPT ![p].ins["business_location_opening_hours"] = @ \cup rows]
          /\ seq' = [seq EXCEPT !["business_location_opening_hours"] =
                        @ + Len(opening_hours)]
          /\ call' = [call EXCEPT ![p].hours = opening_hours]
    /\ pc' = [pc EXCEPT ![p] = "bi_links"]
    /\ UNCHANGED db
    /\ Observe(p)

\* the k-th INSERT of the loop raises a storage error
bulk_import_business_hours_error(p) ==
    /\ pc[p] = "bi_hours"
    /\ LET opening_hours == parse_opening_hours_csv(call[p].req)
       IN \E k \in 1..Len(opening_hours) :
            /\ tx' = [tx EXCEPT ![p].ins["business_location_opening_hours"] =
                        @ \cup ImportedHours(opening_hours, k - 1, call[p].location_id)]
            /\ seq' = [seq EXCEPT !["business_location_opening_hours"] = @ + (k - 1)]
            /\ Raise(p, 500, "storage")
    /\ Observe(p)

\* the text is a time of day: two or three numbers separated by ":"
TimeOfDay(t) ==
    /\ t /= None
    /\ LET parts == Split(t, ":")
       IN /\ Len(parts) \in {2, 3}
          /\ \A i \in 1..Len(parts) :
                /\ Len(parts[i]) = 1
                /\ parts[i][1] \in {"00", "09", "10", "12", "13", "17", "18"}

\* the position of the first parsed entry whose open_time or close_time is
\* not a time of day, 0 if there is none
FirstBadTime(entries) ==
    LET bad == {i \in 1..Len(entries) :
                  /\ ~ entries[i].is_closed
                  /\ ~ (TimeOfDay(entries[i].open_time)
                          /\ TimeOfDay(entries[i].close_time))}
    IN IF bad = {} THEN 0 ELSE CHOOSE i \in bad : \A j \in bad : i <= j

\* the store refuses the INSERT of an entry whose open_time or close_time is
\* not a time of day (a column of type time); a column of type text takes it
\* (bulk_import_business_hours)
bulk_import_business_hours_rejected(p) ==
    /\ pc[p] = "bi_hours"
    /\ LET opening_hours == parse_opening_hours_csv(call[p].req)
           k == FirstBadTime(opening_hours)
       IN /\ k > 0
          /\ tx' = [tx EXCEPT ![p].ins["business_location_opening_hours"] =
                        @ \cup ImportedHours(opening_hours, k - 1, call[p].location_id)]
          /\ seq' = [seq EXCEPT !["business_location_opening_hours"] = @ + (k - 1)]
          /\ Raise(p, 500, "storage")
    /\ Observe(p)

\* the test "is not None" in place of the truthiness of the five URLs
bulk_import_business_links_NotNone(p) ==
    /\ pc[p] = "bi_links"
    /\ LET r == call[p].req
           row == [id |-> NextId("business_web_links"),
                   business_id |-> call[p].business_id,
                   primary_website_url |-> r.website, x_url |-> r.x_url,
                   instagram_url |-> r.instagram_url, facebook_url |-> r.facebook_url,
                   tiktok_url |-> r.tiktok_url]
       IN IF \E u \in {r.website, r.x_url, r.instagram_url, r.facebook_url, r.tiktok_url} :
                u /= None
          THEN /\ tx' = [tx EXCEPT ![p] = Insert(@, "business_web_links", row)]
               /\ seq' = [seq EXCEPT !["business_web_links"] = row.id]
          ELSE UNCHANGED <<tx, seq>>
    /\ pc' = [pc EXCEPT ![p] = "bi_logo"]
    /\ UNCHANGED <<db, call>>
    /\ Observe(p)

\* 6. Insert social links (if any provided)
bulk_import_business_links(p) ==
    /\ pc[p] = "bi_links"
    /\ LET r == call[p].req
           row == [id |-> NextId("business_web_links"),
                   business_id |-> call[p].business_id,
                   primary_website_url |-> r.website, x_url |-> r.x_url,
                   instagram_url |-> r.instagram_url, facebook_url |-> r.facebook_url,
                   tiktok_url |-> r.tiktok_url]
       IN IF \E u \in {r.website, r.x_url, r.instagram_url, r.facebook_url, r.tiktok_url} :
                Truthy(u)
          THEN /\ tx' = [tx EXCEPT ![p] = Insert(@, "business_web_links", row)]
               /\ seq' = [seq EXCEPT !["business_web_links"] = row.id]
          ELSE UNCHANGED <<tx, seq>>
    /\ pc' = [pc EXCEPT ![p] = "bi_logo"]
    /\ UNCHANGED <<db, call>>
    /\ Observe(p)

\* 7. Insert logo (if provided)
bulk_import_business_logo(p) ==
    /\ pc[p] = "bi_logo"
    /\ LET row == [id |-> NextId("business_images"), business_id |-> call[p].business_id,
                   image_type |-> "logo", image_index |-> 0,
                   url |-> call[p].req.logo_url]
       IN IF Truthy(call[p].req.logo_url)
          THEN /\ tx' = [tx EXCEPT ![p] = Insert(@, "business_images", row)]
               /\ seq' = [seq EXCEPT !["business_images"] = row.id]
          ELSE UNCHANGED <<tx, seq>>
    /\ pc' = [pc EXCEPT ![p] = "bi_features"]
    /\ UNCHANGED <<db, call>>
    /\ Observe(p)

\* the proposals the loop over request.features has inserted after n matches
ImportedProposals(ids, n, business_id) ==
    {[id |-> seq["business_feature_proposals"] + i, business_id |-> business_id,
      feature_id |-> ids[i], feature_score |-> 0, proposal_status |-> "pending"] :
        i \in 1..n}

\* the loop over request.features stopping with 404 at a name that is not in
\* the catalog
bulk_import_business_features_Strict(p) ==
    /\ pc[p] = "bi_features"
    /\ LET names == call[p].req.features
           ids == MatchedFeatures(names)
       IN IF \E i \in 1..Len(names) :
                Strip(names[i]) /= <<>>
                /\ \A f \in business_features : f.feature /= Strip(names[i])
          THEN Raise(p, 404, "features") /\ UNCHANGED <<seq, tx>>
          ELSE /\ tx' = [tx EXCEPT ![p].ins["business_feature_proposals"] =
                        @ \cup ImportedProposals(ids, Len(ids), call[p].business_id)]
               /\ seq' = [seq EXCEPT !["business_feature_proposals"] = @ + Len(ids)]
               /\ pc' = [pc EXCEPT ![p] = "bi_commit"]
               /\ UNCHANGED <<db, call>>
    /\ Observe(p)

\* 8. Insert features (if provided)
bulk_import_business_features(p) ==
    /\ pc[p] = "bi_features"
    /\ LET ids == MatchedFeatures(call[p].req.features)
       IN /\ tx' = [tx EXCEPT ![p].ins["business_feature_proposals"] =
                        @ \cup ImportedProposals(ids, Len(ids), call[p].business_id)]
          /\ seq' = [seq EXCEPT !["business_feature_proposals"] = @ + Len(ids)]
    /\ pc' = [pc EXCEPT ![p] = "bi_commit"]
    /\ UNCHANGED <<db, call>>
    /\ Observe(p)

\* Commit transaction
bulk_import_business_commit(p) == Commit(p, "bi_commit")

bulk_import_business_error(p) ==
    \/ StorageFailure(p, "bi_category")
    \/ StorageFailure(p, "bi_business")
    \/ StorageFailure(p, "bi_location")
    \/ StorageFailure(p, "bi_links")
    \/ StorageFailure(p, "bi_logo")
    \/ StorageFailure(p, "bi_features")
    \/ StorageFailure(p, "bi_commit")

(***************************************************************************)
(* POST /businesses/{business_id}/social-links                             *)
(***************************************************************************)
NoLinks ==
    [primary_website_url |-> None, facebook_url |-> None, instagram_url |-> None,
     x_url |-> None, tiktok_url |-> None]

SocialLinksRequests ==
    {NoLinks,
     [NoLinks EXCEPT !.primary_website_url = S("http://corner.example"),
                     !.x_url = S("http://x.example/corner")],
     [NoLinks EXCEPT !.facebook_url = S("http://fb.example/corner")]}

WebLinksRow(id, business_id, r) ==
    [id |-> id, business_id |-> business_id,
     primary_website_url |-> r.primary_website_url, x_url |-> r.x_url,
     instagram_url |-> r.instagram_url, facebook_url |-> r.facebook_url,
     tiktok_url |-> r.tiktok_url]

WebLinksOf(d, business_id) ==
    {w \in d["business_web_links"] : w.business_id = business_id}

add_business_social_links_begin(p, business_id, req) ==
    /\ seq["business_web_links"] < MaxBusinesses + 1
    /\ Begin(p, "add_business_social_links", req, business_id, "sl_check")

\* the lookup of an existing row never finds one
add_business_social_links_check_AlwaysNew(p) ==
    /\ pc[p] = "sl_check"
    /\ UNCHANGED <<seq, tx>>
    /\ IF ~ BusinessExists(View(p), call[p].business_id)
       THEN Raise(p, 404, "business")
       ELSE /\ pc' = [pc EXCEPT ![p] = "sl_write"]
            /\ UNCHANGED db
            /\ call' = [call EXCEPT ![p].existing = 0]
    /\ Observe(p)

\* Verify business exists; check if social links already exist
add_business_social_links_check(p) ==
    /\ pc[p] = "sl_check"
    /\ UNCHANGED <<seq, tx>>
    /\ IF ~ BusinessExists(View(p), call[p].business_id)
       THEN Raise(p, 404, "business")
       ELSE /\ pc' = [pc EXCEPT ![p] = "sl_write"]
            /\ UNCHANGED db
            /\ IF WebLinksOf(View(p), call[p].business_id) = {}
               THEN call' = [call EXCEPT ![p].existing = 0]
               ELSE \E w \in WebLinksOf(View(p), call[p].business_id) :
                       call' = [call EXCEPT ![p].existing = w.id]
    /\ Observe(p)

\* an update that keeps the stored URL where the request gives none
add_business_social_links_write_KeepsOld(p) ==
    /\ pc[p] = "sl_write"
    /\ IF call[p].existing /= 0
       THEN LET rows == WebLinksOf(View(p), call[p].business_id)
                keep(old, new) == IF new = None THEN old ELSE new
                updated == {[w EXCEPT
                    !.primary_website_url = keep(@, call[p].req.primary_website_url),
                    !.facebook_url = keep(@, call[p].req.facebook_url),
                    !.instagram_url = keep(@, call[p].req.instagram_url),
                    !.x_url = keep(@, call[p].req.x_url),
                    !.tiktok_url = keep(@, call[p].req.tiktok_url)] : w \in rows}
            IN /\ tx' = [tx EXCEPT ![p] =
                     [ins |-> [Delete(@, "business_web_links", rows).ins EXCEPT
                                  !["business_web_links"] = @ \cup updated],
                      del |-> Delete(@, "business_web_links", rows).del]]
               /\ UNCHANGED <<seq, call>>
       ELSE LET row == WebLinksRow(NextId("business_web_links"),
                                   call[p].business_id, call[p].req)
            IN /\ tx' = [tx EXCEPT ![p] = Insert(@, "business_web_links", row)]
               /\ seq' = [seq EXCEPT !["business_web_links"] = row.id]
               /\ call' = [call EXCEPT ![p].existing = row.id]
    /\ pc' = [pc EXCEPT ![p] = "sl_commit"]
    /\ UNCHANGED db
    /\ Observe(p)

\* UPDATE ... WHERE business_id = %s, or INSERT
add_business_social_links_write(p) ==
    /\ pc[p] = "sl_write"
    /\ call[p].existing /= 0 =>
          ~ RowLocked(p, "business_web_links", WebLinksOf(db, call[p].business_id))
    /\ IF call[p].existing /= 0
       THEN LET rows == WebLinksOf(View(p), call[p].business_id)
                updated == {WebLinksRow(w.id, w.business_id, call[p].req) : w \in rows}
            IN /\ tx' = [tx EXCEPT ![p] =
                     [ins |-> [Delete(@, "business_web_links", rows).ins EXCEPT
                                  !["business_web_links"] = @ \cup updated],
                      del |-> Delete(@, "business_web_links", rows).del]]
               /\ UNCHANGED <<seq, call>>
       ELSE LET row == WebLinksRow(NextId("business_web_links"),
                                   call[p].business_id, call[p].req)
            IN /\ tx' = [tx EXCEPT ![p] = Insert(@, "business_web_links", row)]
               /\ seq' = [seq EXCEPT !["business_web_links"] = row.id]
               /\ call' = [call EXCEPT ![p].existing = row.id]
    /\ pc' = [pc EXCEPT ![p] = "sl_commit"]
    /\ UNCHANGED db
    /\ Observe(p)

add_business_social_links_commit(p) == Commit(p, "sl_commit")

(***************************************************************************)
(* POST /businesses/{business_id}/logo                                     *)
(***************************************************************************)
LogoRequests ==
    {[url |-> S("http://corner.example/logo.png")],
     [url |-> S("http://corner.example/new-logo.png")]}

ImageRow(id, business_id, url) ==
    [id |-> id, business_id |-> business_id, image_type |-> "logo",
     image_index |-> 0, url |-> url]

LogosOf(d, business_id) ==
    {g \in d["business_images"] :
        g.business_id = business_id /\ g.image_type = "logo" /\ g.image_index = 0}

add_business_logo_begin(p, business_id, req) ==
    /\ seq["business_images"] < MaxBusinesses + 1
    /\ Begin(p, "add_business_logo", req, business_id, "lg_check")

\* Verify business exists; check if logo already exists (image_index = 0)
add_business_logo_check(p) ==
    /\ pc[p] = "lg_check"
    /\ UNCHANGED <<seq, tx>>
    /\ IF ~ BusinessExists(View(p), call[p].business_id)
       THEN Raise(p, 404, "business")
       ELSE /\ pc' = [pc EXCEPT ![p] = "lg_write"]
            /\ UNCHANGED db
            /\ IF LogosOf(View(p), call[p].business_id) = {}
               THEN call' = [call EXCEPT ![p].existing = 0]
               ELSE \E g \in LogosOf(View(p), call[p].business_id) :
                       call' = [call EXCEPT ![p].existing = g.id]
    /\ Observe(p)

\* UPDATE business_images SET url = %s WHERE id = %s, or INSERT
add_business_logo_write(p) ==
    /\ pc[p] = "lg_write"
    /\ call[p].existing /= 0 =>
          ~ RowLocked(p, "business_images",
                      {g \in db["business_images"] : g.id = call[p].existing})
    /\ IF call[p].existing /= 0
       THEN LET rows == {g \in View(p)["business_images"] : g.id = call[p].existing}
                updated == {[g EXCEPT !.url = call[p].req.url] : g \in rows}
            IN /\ tx' = [tx EXCEPT ![p] =
                     [ins |-> [Delete(@, "business_images", rows).ins EXCEPT
                                  !["business_images"] = @ \cup updated],
                      del |-> Delete(@, "business_images", rows).del]]
               /\ UNCHANGED <<seq, call>>
       ELSE LET row == ImageRow(NextId("business_images"), call[p].business_id,
                                call[p].req.url)
            IN /\ tx' = [tx EXCEPT ![p] = Insert(@, "business_images", row)]
               /\ seq' = [seq EXCEPT !["business_images"] = row.id]
               /\ call' = [call EXCEPT ![p].existing = row.id]
    /\ pc' = [pc EXCEPT ![p] = "lg_commit"]
    /\ UNCHANGED db
    /\ Observe(p)

add_business_logo_commit(p) == Commit(p, "lg_commit")

(***************************************************************************)
(* POST /businesses/{business_id}/features                                 *)
(***************************************************************************)
MaxProposals == 2

FeatureProposal(feature_id, feature_score) ==
    [feature_id |-> feature_id, feature_score |-> feature_score]

FeaturesRequests ==
    {<<>>,
     <<FeatureProposal(1, 0)>>,
     <<FeatureProposal(2, 5), FeatureProposal(2, 5)>>,
     <<FeatureProposal(1, 3), FeatureProposal(9, 0)>>,
     <<FeatureProposal(9, 0), FeatureProposal(2, 0)>>}

ProposalRow(id, business_id, feature_id, feature_score) ==
    [id |-> id, business_id |-> business_id, feature_id |-> feature_id,
     feature_score |-> feature_score, proposal_status |-> "pending"]

\* set(feature_ids) - existing_features
MissingFeatures(features) ==
    {features[i].feature_id : i \in 1..Len(features)}
        \ {f.id : f \in business_features}

\* the rows the loop over request.features has inserted after n entries
InsertedProposals(features, n, business_id) ==
    {ProposalRow(seq["business_feature_proposals"] + i, business_id,
                 features[i].feature_id, features[i].feature_score) : i \in 1..n}

add_business_features_begin(p, business_id, req) ==
    /\ seq["business_feature_proposals"] + Len(req) <= MaxProposals
    /\ Begin(p, "add_business_features", req, business_id, "ft_check")

\* the check without the look for the business
add_business_features_check_NoBusiness(p) ==
    /\ pc[p] = "ft_check"
    /\ UNCHANGED <<seq, tx>>
    /\ IF call[p].req /= <<>> /\ MissingFeatures(call[p].req) /= {}
       THEN Raise(p, 404, "features")
       ELSE /\ pc' = [pc EXCEPT ![p] = "ft_insert"]
            /\ UNCHANGED <<db, call>>
    /\ Observe(p)

\* the check without the validation of the feature ids
add_business_features_check_Unvalidated(p) ==
    /\ pc[p] = "ft_check"
    /\ UNCHANGED <<seq, tx>>
    /\ IF ~ BusinessExists(View(p), call[p].business_id)
       THEN Raise(p, 404, "business")
       ELSE /\ pc' = [pc EXCEPT ![p] = "ft_insert"]
            /\ UNCHANGED <<db, call>>
    /\ Observe(p)

\* Verify business exists; verify all features exist
add_business_features_check(p) ==
    /\ pc[p] = "ft_check"
    /\ UNCHANGED <<seq, tx>>
    /\ IF ~ BusinessExists(View(p), call[p].business_id)
       THEN Raise(p, 404, "business")
       ELSE IF call[p].req /= <<>> /\ MissingFeatures(call[p].req) /= {}
       THEN Raise(p, 404, "features")
       ELSE /\ pc' = [pc EXCEPT ![p] = "ft_insert"]
            /\ UNCHANGED <<db, call>>
    /\ Observe(p)

\* Insert feature proposals
add_business_features_insert(p) ==
    /\ pc[p] = "ft_insert"
    /\ LET features == call[p].req
       IN /\ tx' = [tx EXCEPT ![p].ins["business_feature_proposals"] =
                       @ \cup InsertedProposals(features, Len(features),
                                                call[p].business_id)]
          /\ seq' = [seq EXCEPT !["business_feature_proposals"] = @ + Len(features)]
    /\ pc' = [pc EXCEPT ![p] = "ft_commit"]
    /\ UNCHANGED <<db, call>>
    /\ Observe(p)

\* the k-th INSERT of the loop raises a storage error on a connection in
\* autocommit mode: the rows inserted before it are committed
add_business_features_insert_error_Autocommit(p) ==
    /\ pc[p] = "ft_insert"
    /\ LET features == call[p].req
       IN \E k \in 1..Len(features) :
            /\ db' = [db EXCEPT !["business_feature_proposals"] =
                        @ \cup InsertedProposals(features, k - 1, call[p].business_id)]
            /\ seq' = [seq EXCEPT !["business_feature_proposals"] = @ + (k - 1)]
            /\ pc' = [pc EXCEPT ![p] = "return"]
            /\ call' = [call EXCEPT ![p].status = 500, ![p].error = "storage"]
            /\ UNCHANGED tx
    /\ Observe(p)

\* the k-th INSERT of the loop raises a storage error
add_business_features_insert_error(p) ==
    /\ pc[p] = "ft_insert"
    /\ LET features == call[p].req
       IN \E k \in 1..Len(features) :
            /\ tx' = [tx EXCEPT ![p].ins["business_feature_proposals"] =
                        @ \cup InsertedProposals(features, k - 1, call[p].business_id)]
            /\ seq' = [seq EXCEPT !["business_feature_proposals"] = @ + (k - 1)]
            /\ Raise(p, 500, "storage")
    /\ Observe(p)

add_business_features_commit(p) == Commit(p, "ft_commit")

add_business_features_error(p) ==
    \/ StorageFailure(p, "ft_check")
    \/ StorageFailure(p, "ft_commit")

(***************************************************************************)
(* GET /businesses                                                         *)
(***************************************************************************)
\* LEFT JOIN business_locations bl ON ... bl.is_public = true AND
\* bl.location_index = 1 ... WHERE bl.location IS NOT NULL
PrimaryPublicLocations(d, business_id) ==
    {l \in d["business_locations"] :
        l.business_id = business_id /\ l.is_public /\ l.location_index = 1}

\* LEFT JOIN business_categories bc ON b.category_id = bc.id
CategoryOf(category_id) ==
    IF \E c \in business_categories : c.id = category_id
    THEN (CHOOSE c \in business_categories : c.id = category_id).category
    ELSE None

\* float(row["latitude"]) if row["latitude"] else None, and the skip of a
\* business whose latitude or longitude is None
NoCoordinate(v) == v = 0

\* the elements of a set of rows in the order of key (a function of the
\* rows), ties in the order of id
RECURSIVE SortedBy(_, _)
SortedBy(rows, key) ==
    IF rows = {} THEN <<>>
    ELSE LET first == CHOOSE r \in rows : \A o \in rows :
                          \/ key[r] < key[o]
                          \/ key[r] = key[o] /\ r.id <= o.id
         IN <<first>> \o SortedBy(rows \ {first}, key)

\* ORDER BY bf.feature, over the names of the catalog
FeatureOrder(proposal) ==
    LET f == CHOOSE c \in business_features : c.id = proposal.feature_id
    IN IF f.feature = S("parking") THEN 1 ELSE 2

\* the query without the filter on the status
ApprovedProposals_AnyStatus(d, business_id) ==
    {r \in d["business_feature_proposals"] :
        /\ r.business_id = business_id
        /\ \E c \in business_features : c.id = r.feature_id}

\* ... JOIN business_features bf ... WHERE bfp.proposal_status = 'approved'
ApprovedProposals(d, business_id) ==
    {r \in d["business_feature_proposals"] :
        /\ r.business_id = business_id
        /\ r.proposal_status = "approved"
        /\ \E c \in business_features : c.id = r.feature_id}

\* a Python value of an entry: its type and its text
PyBool(b) == [type |-> "bool", repr |-> IF b THEN "True" ELSE "False"]

PyInt(n) == [type |-> "int", repr |-> ToString(n)]

PyStr(s) == [type |-> "str", repr |-> s]

\* "value": row["feature_score"] or True
FeatureEntry(r) ==
    [key |-> <<"feature_", r.feature_id>>,
     name |-> (CHOOSE c \in business_features : c.id = r.feature_id).feature,
     value |-> IF r.feature_score = 0 THEN PyBool(TRUE) ELSE PyInt(r.feature_score)]

FeaturesView(d, business_id) ==
    LET approved == ApprovedProposals(d, business_id)
        rows == SortedBy(approved, [r \in approved |-> FeatureOrder(r)])
    IN [i \in 1..Len(rows) |-> FeatureEntry(rows[i])]

\* the x_url of the row left out of the object
SocialView_NoTwitter(w) ==
    LET social_data == [website |-> w.primary_website_url,
                        facebook |-> w.facebook_url,
                        instagram |-> w.instagram_url,
                        twitter |-> None, tiktok |-> w.tiktok_url]
    IN IF \E k \in DOMAIN social_data : social_data[k] /= None
       THEN <<social_data>> ELSE <<>>

\* the object built whatever the fields are
SocialView_Always(w) ==
    <<[website |-> w.primary_website_url, facebook |-> w.facebook_url,
       instagram |-> w.instagram_url, twitter |-> w.x_url,
       tiktok |-> w.tiktok_url]>>

\* social_by_business[business_id] and the any(v is not None) test
SocialView(w) ==
    LET social_data == [website |-> w.primary_website_url,
                        facebook |-> w.facebook_url,
                        instagram |-> w.instagram_url,
                        twitter |-> w.x_url, tiktok |-> w.tiktok_url]
    IN IF \E k \in DOMAIN social_data : social_data[k] /= None
       THEN <<social_data>> ELSE <<>>

\* the list of names starting at Monday
day_names_MondayFirst(day_of_week) ==
    CASE day_of_week = 0 -> "Monday"
      [] day_of_week = 1 -> "Tuesday"
      [] day_of_week = 2 -> "Wednesday"
      [] day_of_week = 3 -> "Thursday"
      [] day_of_week = 4 -> "Friday"
      [] day_of_week = 5 -> "Saturday"
      [] day_of_week = 6 -> "Sunday"
      [] day_of_week = -1 -> "Sunday"
      [] OTHER -> "IndexError"

day_names(day_of_week) ==
    CASE day_of_week = 0 -> "Sunday"
      [] day_of_week = 1 -> "Monday"
      [] day_of_week = 2 -> "Tuesday"
      [] day_of_week = 3 -> "Wednesday"
      [] day_of_week = 4 -> "Thursday"
      [] day_of_week = 5 -> "Friday"
      [] day_of_week = 6 -> "Saturday"
      [] day_of_week = -1 -> "Saturday"
      [] OTHER -> "IndexError"

HoursDay(h) == h.day_of_week

RECURSIVE OpenEntries(_)
OpenEntries(rows) ==
    IF rows = <<>> THEN <<>>
    ELSE (IF Head(rows).is_closed THEN <<>>
          ELSE <<[day |-> day_names(Head(rows).day_of_week),
                  start |-> IF Head(rows).open_time /= None
                            THEN Head(rows).open_time ELSE <<"9", ":", "00">>,
                  end |-> IF Head(rows).close_time /= None
                          THEN Head(rows).close_time ELSE <<"17", ":", "00">>]>>)
         \o OpenEntries(Tail(rows))

\* the hours read in one query joined with the approved proposals: a row for
\* each pair of an hours row and a proposal
HoursView_Joined(d, business_id) ==
    LET hours_rows ==
            {h \in d["business_location_opening_hours"] :
                \E l \in PrimaryPublicLocations(d, business_id) : h.location_id = l.id}
        m == Cardinality(ApprovedProposals(d, business_id))
        entries == OpenEntries(SortedBy(hours_rows, [h \in hours_rows |-> HoursDay(h)]))
    IN [i \in 1..(Len(entries) * (IF m = 0 THEN 1 ELSE m)) |->
           entries[((i - 1) % Len(entries)) + 1]]

\* JOIN business_locations bl ... WHERE bl.location_index = 1 AND bl.is_public
HoursView(d, business_id) ==
    LET hours_rows ==
            {h \in d["business_location_opening_hours"] :
                \E l \in PrimaryPublicLocations(d, business_id) : h.location_id = l.id}
    IN OpenEntries(SortedBy(hours_rows, [h \in hours_rows |-> HoursDay(h)]))

\* the record built for a business from its row of the main query (location
\* l), its row of social_by_business (w) and of logos_by_business (g); an
\* absent row is the empty sequence
BusinessView(d, b, l, w, g) ==
    [id |-> b.id, name |-> b.name, description |-> l.location_name,
     latitude |-> l.latitude, longitude |-> l.longitude,
     category |-> CategoryOf(b.category_id), isVerified |-> b.is_verified,
     logo |-> IF g = <<>> THEN None ELSE g[1].url,
     features |-> FeaturesView(d, b.id),
     socialLinks |-> IF w = <<>> THEN <<>> ELSE SocialView(w[1]),
     openingHours |-> HoursView(d, b.id)]

\* from pydantic import BaseModel: the major version of the library is the
\* build's choice
PydanticMajor == {1, 2}

\* class BusinessFeature: value: str | bool.  Version 1 tries str first, and
\* str takes a bool or an int as its text; version 2 keeps a bool, takes the
\* int 1 as True and refuses any other int
BusinessFeature(entry, pydantic) ==
    [entry EXCEPT !.value =
        IF pydantic = 1 THEN PyStr(entry.value.repr)
        ELSE IF entry.value.type = "bool" THEN entry.value
        ELSE IF entry.value = PyInt(1) THEN PyBool(TRUE)
        ELSE [type |-> "ValidationError", repr |-> entry.value.repr]]

\* business = Business(..., features=features_by_business.get(business_id, []), ...)
Business(business_data, pydantic) ==
    [business_data EXCEPT !.features =
        [k \in 1..Len(business_data.features) |->
            BusinessFeature(business_data.features[k], pydantic)]]

\* the merge loop over the records of a result
Businesses(r, pydantic) ==
    [i \in DOMAIN r |->
        IF r[i] = <<>> THEN <<>> ELSE <<Business(r[i][1], pydantic)>>]

ValidationError(businesses) ==
    \E i \in DOMAIN businesses :
        /\ businesses[i] /= <<>>
        /\ \E k \in 1..Len(businesses[i][1].features) :
              businesses[i][1].features[k].value.type = "ValidationError"

RowOrAbsent(rows) == IF rows = {} THEN {<<>>} ELSE {<<r>> : r \in rows}

\* the main query without WHERE bl.location IS NOT NULL and without the skip
BusinessViews_Unlocated(d, b) ==
    IF PrimaryPublicLocations(d, b.id) = {}
    THEN {<<BusinessView(d, b, [location_name |-> None, latitude |-> 0,
                                longitude |-> 0], <<>>, <<>>)>>}
    ELSE {<<BusinessView(d, b, l, w, g)>> :
            l \in PrimaryPublicLocations(d, b.id),
            w \in RowOrAbsent(WebLinksOf(d, b.id)),
            g \in RowOrAbsent(LogosOf(d, b.id))}

\* what the queries and the merge can give for one business: no record
\* (the empty sequence) or one record; which row stands for a business that
\* has several is the store's choice
BusinessViews(d, b) ==
    IF PrimaryPublicLocations(d, b.id) = {} THEN {<<>>}
    ELSE {IF NoCoordinate(l.latitude) \/ NoCoordinate(l.longitude) THEN <<>>
          ELSE <<BusinessView(d, b, l, w, g)>> :
            l \in PrimaryPublicLocations(d, b.id),
            w \in RowOrAbsent(WebLinksOf(d, b.id)),
            g \in RowOrAbsent(LogosOf(d, b.id))}

\* the possible results: for each business id no record or one record
GetBusinessesResults(d) ==
    LET ids == {b.id : b \in d["businesses"]}
        row(i) == CHOOSE b \in d["businesses"] : b.id = i
    IN {f \in [ids -> UNION {BusinessViews(d, row(i)) : i \in ids}] :
            \A i \in ids : f[i] \in BusinessViews(d, row(i))}

get_businesses(p) ==
    /\ pc[p] = "idle"
    /\ pc' = [pc EXCEPT ![p] = "return"]
    /\ \E r \in GetBusinessesResults(View(p)), pydantic \in PydanticMajor :
          LET businesses == Businesses(r, pydantic)
          IN call' = [call EXCEPT ![p] =
                         IF ValidationError(businesses)
                         THEN [NewCall("get_businesses", <<>>, 0) EXCEPT
                                  !.status = 500, !.error = "storage"]
                         ELSE [NewCall("get_businesses", <<>>, 0) EXCEPT
                                  !.status = 200, !.result = businesses]]
    /\ UNCHANGED <<db, seq, tx>>
    /\ Observe(p)

\* the handler query by query.  Its connection is not in autocommit mode and
\* has the default isolation level, so each query reads the rows committed
\* when it runs; call[p].rows keeps what the queries have fetched.  The
\* merge takes a business from the main query only, and the location that
\* the hours query joins is the one the main query has read (locations are
\* not deleted), so the record is built from the fetched tables as a whole.
Fetched(p, tables) ==
    [tb \in Tables |-> IF tb \in tables THEN View(p)[tb] ELSE call[p].rows[tb]]

get_businesses_query(p, at, tables, next) ==
    /\ pc[p] = at
    /\ pc' = [pc EXCEPT ![p] = next]
    /\ call' = [call EXCEPT ![p].rows = Fetched(p, tables)]
    /\ UNCHANGED <<db, seq, tx>>
    /\ Observe(p)

\* a main query that reads the rows other transactions have not committed
get_businesses_main_Dirty(p) ==
    /\ pc[p] = "idle"
    /\ pc' = [pc EXCEPT ![p] = "gb_features"]
    /\ call' = [call EXCEPT ![p] =
                   [NewCall("get_businesses", <<>>, 0) EXCEPT !.rows =
                       [tb \in Tables |->
                           IF tb \in {"businesses", "business_locations"}
                           THEN db[tb] \cup UNION {tx[q].ins[tb] : q \in Procs}
                           ELSE {}]]]
    /\ tx' = [tx EXCEPT ![p] = EmptyTx]
    /\ UNCHANGED <<db, seq>>
    /\ Observe(p)

\* Main query to get businesses with locations and categories
get_businesses_main(p) ==
    /\ pc[p] = "idle"
    /\ pc' = [pc EXCEPT ![p] = "gb_features"]
    /\ call' = [call EXCEPT ![p] =
                   [NewCall("get_businesses", <<>>, 0) EXCEPT !.rows =
                       [tb \in Tables |->
                           IF tb \in {"businesses", "business_locations"}
                           THEN db[tb] ELSE {}]]]
    /\ tx' = [tx EXCEPT ![p] = EmptyTx]
    /\ UNCHANGED <<db, seq>>
    /\ Observe(p)

\* Get features for each business
get_businesses_features(p) ==
    get_businesses_query(p, "gb_features", {"business_feature_proposals"}, "gb_social")

\* Get social links
get_businesses_social(p) ==
    get_businesses_query(p, "gb_social", {"business_web_links"}, "gb_hours")

\* Get opening hours
get_businesses_hours(p) ==
    get_businesses_query(p, "gb_hours", {"business_location_opening_hours"}, "gb_logo")

\* Get logo from business_images; build final business list
get_businesses_logo(p) ==
    /\ pc[p] = "gb_logo"
    /\ pc' = [pc EXCEPT ![p] = "return"]
    /\ \E r \in GetBusinessesResults(Fetched(p, {"business_images"})),
          pydantic \in PydanticMajor :
          LET businesses == Businesses(r, pydantic)
          IN call' = [call EXCEPT ![p] =
                         IF ValidationError(businesses)
                         THEN [@ EXCEPT !.status = 500, !.error = "storage",
                                        !.rows = Fetched(p, {"business_images"})]
                         ELSE [@ EXCEPT !.status = 200, !.result = businesses,
                                        !.rows = Fetched(p, {"business_images"})]]
    /\ UNCHANGED <<db, seq, tx>>
    /\ Observe(p)

\* the external workflow decides on a pending proposal
proposal_reviewed(status) ==
    /\ \A p \in Procs : pc[p] = "idle"
    /\ \E r \in db["business_feature_proposals"] :
          /\ r.proposal_status = "pending"
          /\ db' = [db EXCEPT !["business_feature_proposals"] =
                      (@ \ {r}) \cup {[r EXCEPT !.proposal_status = status]}]
    /\ UNCHANGED <<seq, pc, call, tx, obs>>

(***************************************************************************)
(* Specification                                                           *)
(***************************************************************************)
Init ==
    /\ db = EmptyTables
    /\ seq = [t \in Tables |-> 0]
    /\ pc = [p \in Procs |-> "idle"]
    /\ call = [p \in Procs |-> NoCall]
    /\ tx = [p \in Procs |-> EmptyTx]
    /\ obs = NoObs

Step(p) ==
    \/ \E req \in IdentityRequests : create_business_identity(p, req)
    \/ \E b \in BusinessIds, req \in LocationRequests :
          add_business_location_begin(p, b, req)
    \/ add_business_location_check(p)
    \/ add_business_location_insert(p)
    \/ add_business_location_commit(p)
    \/ \E b \in BusinessIds, req \in HoursRequests :
          add_business_opening_hours_begin(p, b, req)
    \/ add_business_opening_hours_check(p)
    \/ add_business_opening_hours_delete(p)
    \/ add_business_opening_hours_insert(p)
    \/ add_business_opening_hours_commit(p)
    \/ \E req \in BulkRequests : bulk_import_business_begin(p, req)
    \/ bulk_import_business_category(p)
    \/ bulk_import_business_geocode(p)
    \/ bulk_import_business_business(p)
    \/ bulk_import_business_location(p)
    \/ bulk_import_business_hours(p)
    \/ bulk_import_business_links(p)
    \/ bulk_import_business_logo(p)
    \/ bulk_import_business_features(p)
    \/ bulk_import_business_commit(p)
    \/ Return(p)

\* a statement of the request raises a storage error
StorageError(p) ==
    \/ add_business_location_error(p)
    \/ add_business_opening_hours_insert_error(p)
    \/ add_business_opening_hours_error(p)
    \/ bulk_import_business_hours_error(p)
    \/ bulk_import_business_error(p)

\* one client, each request runs to its response before the next begins, and
\* the store executes every statement
Next == Step(1)

Spec == Init /\ [][Next]_vars

\* one client; any statement may raise a storage error
NextFaulty == Step(1) \/ StorageError(1)

SpecFaulty == Init /\ [][NextFaulty]_vars

\* two clients, their requests interleaved statement by statement, unobserved
InitConcurrent ==
    /\ db = EmptyTables
    /\ seq = [t \in Tables |-> 0]
    /\ pc = [p \in Procs |-> "idle"]
    /\ call = [p \in Procs |-> NoCall]
    /\ tx = [p \in Procs |-> EmptyTx]
    /\ obs = [NoObs EXCEPT !.on = FALSE]

StepConcurrent(p) ==
    \/ \E req \in IdentityRequests : create_business_identity(p, req)
    \/ \E b \in BusinessIds, req \in LocationRequests :
          add_business_location_begin(p, b, req)
    \/ add_business_location_check(p)
    \/ add_business_location_insert(p)
    \/ add_business_location_commit(p)
    \/ \E req \in BulkRequests : bulk_import_business_begin(p, req)
    \/ bulk_import_business_category(p)
    \/ bulk_import_business_geocode(p)
    \/ bulk_import_business_business(p)
    \/ bulk_import_business_location(p)
    \/ bulk_import_business_hours(p)
    \/ bulk_import_business_links(p)
    \/ bulk_import_business_logo(p)
    \/ bulk_import_business_features(p)
    \/ bulk_import_business_commit(p)
    \/ Return(p)

NextConcurrent == \E p \in Procs : StepConcurrent(p)

SpecConcurrent == InitConcurrent /\ [][NextConcurrent]_vars

\* the parser alone, on every row with at most MaxDayStrings day columns filled
InitParser ==
    /\ db = EmptyTables
    /\ seq = [t \in Tables |-> 0]
    /\ pc = [p \in Procs |-> "idle"]
    /\ tx = [p \in Procs |-> EmptyTx]
    /\ obs = [NoObs EXCEPT !.on = FALSE]
    /\ \E filled \in {cs \in SUBSET DayColumns : Cardinality(cs) <= MaxDayStrings} :
          \E days \in [filled -> DayStrings \ {None}] :
             call = [p \in Procs |->
                        IF p = 1
                        THEN [NoCall EXCEPT !.op = "parse_opening_hours_csv",
                                            !.req = DayRow(days)]
                        ELSE NoCall]

NextParser == parse_opening_hours_csv_call(1)

SpecParser == InitParser /\ [][NextParser]_vars

\* the steps of each route
IdentitySteps(p) == \E req \in IdentityRequests : create_business_identity(p, req)

LocationSteps(p, requests) ==
    \/ \E b \in BusinessIds, req \in requests :
          add_business_location_begin(p, b, req)
    \/ add_business_location_check(p)
    \/ add_business_location_insert(p)
    \/ add_business_location_commit(p)

OpeningHoursSteps(p, requests) ==
    \/ \E b \in BusinessIds, req \in requests :
          add_business_opening_hours_begin(p, b, req)
    \/ add_business_opening_hours_check(p)
    \/ add_business_opening_hours_delete(p)
    \/ add_business_opening_hours_insert(p)
    \/ add_business_opening_hours_commit(p)

SocialLinksSteps(p, requests) ==
    \/ \E b \in BusinessIds, req \in requests :
          add_business_social_links_begin(p, b, req)
    \/ add_business_social_links_check(p)
    \/ add_business_social_links_write(p)
    \/ add_business_social_links_commit(p)

LogoSteps(p, requests) ==
    \/ \E b \in BusinessIds, req \in requests :
          add_business_logo_begin(p, b, req)
    \/ add_business_logo_check(p)
    \/ add_business_logo_write(p)
    \/ add_business_logo_commit(p)

FeaturesSteps(p, requests) ==
    \/ \E b \in BusinessIds, req \in requests :
          add_business_features_begin(p, b, req)
    \/ add_business_features_check(p)
    \/ add_business_features_insert(p)
    \/ add_business_features_commit(p)

BulkImportSteps(p, requests) ==
    \/ \E req \in requests : bulk_import_business_begin(p, req)
    \/ bulk_import_business_category(p)
    \/ bulk_import_business_geocode(p)
    \/ bulk_import_business_business(p)
    \/ bulk_import_business_location(p)
    \/ bulk_import_business_hours(p)
    \/ bulk_import_business_links(p)
    \/ bulk_import_business_logo(p)
    \/ bulk_import_business_features(p)
    \/ bulk_import_business_commit(p)

\* one client: rows of the import sheet, imported by a store that executes
\* every statement but may refuse a text that is not a time of day, and read
\* back
NextImport ==
    \/ BulkImportSteps(1, ImportRequests)
    \/ bulk_import_business_hours_rejected(1)
    \/ get_businesses(1)
    \/ Return(1)

SpecImport == Init /\ [][NextImport]_vars

\* one client: the profile of a business (location, links, logo) written by
\* the steps and by the bulk import, and read back
NextProfile ==
    \/ IdentitySteps(1)
    \/ LocationSteps(1, {r \in LocationRequests : r.longitude /= 0})
    \/ SocialLinksSteps(1, SocialLinksRequests)
    \/ LogoSteps(1, LogoRequests)
    \/ BulkImportSteps(1, {r \in BulkRequests : r.address /= S("zzzz-invalid")
                                               /\ r.category /= S("cafe")})
    \/ get_businesses(1)
    \/ Return(1)

SpecProfile == Init /\ [][NextProfile]_vars

\* one client: feature proposals written by the step and by the bulk import,
\* and read back
NextProposals ==
    \/ IdentitySteps(1)
    \/ LocationSteps(1, LocationRequests)
    \/ FeaturesSteps(1, FeaturesRequests)
    \/ BulkImportSteps(1, BulkRequests)
    \/ get_businesses(1)
    \/ Return(1)

SpecProposals == Init /\ [][NextProposals]_vars

\* one client: the five onboarding steps of a business, one request each
NextSteps ==
    \/ IdentitySteps(1)
    \/ LocationSteps(1, {r \in LocationRequests : r.longitude /= 0})
    \/ OpeningHoursSteps(1, {<<HourEntry(1, T0900, T1700, FALSE)>>})
    \/ SocialLinksSteps(1, {[NoLinks EXCEPT !.facebook_url = S("http://fb.example/corner")]})
    \/ LogoSteps(1, {[url |-> S("http://corner.example/logo.png")]})
    \/ FeaturesSteps(1, {<<FeatureProposal(1, 0)>>})
    \/ Return(1)

SpecSteps == Init /\ [][NextSteps]_vars

\* one client: opening hours written by the step and read back
NextHoursView ==
    \/ IdentitySteps(1)
    \/ LocationSteps(1, LocationRequests)
    \/ OpeningHoursSteps(1, HoursRequests)
    \/ get_businesses(1)
    \/ Return(1)

SpecHoursView == Init /\ [][NextHoursView]_vars

\* a statement of a step raises a storage error
StepStorageError(p) ==
    \/ add_business_location_error(p)
    \/ add_business_opening_hours_insert_error(p)
    \/ add_business_opening_hours_error(p)
    \/ add_business_features_insert_error(p)
    \/ add_business_features_error(p)

\* one client: the onboarding steps that write more than one row; any
\* statement may raise a storage error
NextStepsFaulty ==
    \/ IdentitySteps(1)
    \/ LocationSteps(1, {r \in LocationRequests : r.longitude /= 0})
    \/ OpeningHoursSteps(1, {<<HourEntry(1, T0900, T1700, FALSE)>>,
                             <<HourEntry(1, T1000s, T1800s, FALSE),
                               HourEntry(1, None, None, TRUE)>>})
    \/ FeaturesSteps(1, {<<FeatureProposal(2, 5), FeatureProposal(2, 5)>>})
    \/ StepStorageError(1)
    \/ Return(1)

SpecStepsFaulty == Init /\ [][NextStepsFaulty]_vars

\* one client: the steps above, and the connection may be lost in the cleanup
NextCleanup ==
    \/ NextStepsFaulty
    \/ CleanupFailure(1)

SpecCleanup == Init /\ [][NextCleanup]_vars

\* one client, every operation of the core with one request each; unobserved
NextCore ==
    \/ IdentitySteps(1)
    \/ LocationSteps(1, {r \in LocationRequests : r.longitude /= 0})
    \/ OpeningHoursSteps(1, {<<HourEntry(1, T0900, T1700, FALSE)>>})
    \/ SocialLinksSteps(1, {[NoLinks EXCEPT !.facebook_url = S("http://fb.example/corner")]})
    \/ LogoSteps(1, {[url |-> S("http://corner.example/logo.png")]})
    \/ FeaturesSteps(1, {<<FeatureProposal(1, 0)>>})
    \/ BulkImportSteps(1, {r \in BulkRequests : r.name = S("The Bar")})
    \/ get_businesses(1)
    \/ Return(1)

SpecCore == InitConcurrent /\ [][NextCore]_vars

\* the operations that write the rows of a business, one request each
DetailWrites(p) ==
    \/ LocationSteps(p, {r \in LocationRequests : r.longitude /= 0})
    \/ OpeningHoursSteps(p, {<<HourEntry(1, T0900, T1700, FALSE)>>})
    \/ SocialLinksSteps(p, {[NoLinks EXCEPT !.facebook_url = S("http://fb.example/corner")]})
    \/ LogoSteps(p, {[url |-> S("http://corner.example/logo.png")]})
    \/ FeaturesSteps(p, {<<FeatureProposal(1, 0)>>})
    \/ Return(p)

\* the operations that create a business
BusinessWrites(p) ==
    \/ IdentitySteps(p)
    \/ BulkImportSteps(p, {r \in BulkRequests : r.website /= None})
    \/ Return(p)

\* two clients, the statements of their requests interleaved: one creates
\* businesses, the other writes their rows; unobserved
NextInterleaved == DetailWrites(1) \/ BusinessWrites(2)

SpecInterleaved == InitConcurrent /\ [][NextInterleaved]_vars

\* two requests for the opening hours of a business, for different days
ConcurrentHours ==
    {<<HourEntry(1, T0900, T1700, FALSE)>>,
     <<HourEntry(2, T1000s, T1800s, FALSE)>>}

\* two clients set the opening hours of the business that one of them has
\* created, their statements interleaved; unobserved
NextConcurrentHours ==
    \/ IdentitySteps(1)
    \/ LocationSteps(1, {r \in LocationRequests : r.longitude /= 0})
    \/ \E p \in Procs : OpeningHoursSteps(p, ConcurrentHours) \/ Return(p)

SpecConcurrentHours == InitConcurrent /\ [][NextConcurrentHours]_vars

\* two clients upsert the social links and the logo of the business that one
\* of them has created, their statements interleaved; unobserved
NextConcurrentUpserts ==
    \/ IdentitySteps(1)
    \/ \E p \in Procs :
          \/ SocialLinksSteps(p, {[NoLinks EXCEPT !.facebook_url = S("http://fb.example/corner")]})
          \/ LogoSteps(p, {[url |-> S("http://corner.example/logo.png")]})
          \/ Return(p)

SpecConcurrentUpserts == InitConcurrent /\ [][NextConcurrentUpserts]_vars

\* the queries of GET /businesses one after another
GetBusinessesSteps(p) ==
    \/ get_businesses_main(p)
    \/ get_businesses_features(p)
    \/ get_businesses_social(p)
    \/ get_businesses_hours(p)
    \/ get_businesses_logo(p)

\* a reader and an importer, their statements interleaved; any statement of
\* the import may raise a storage error; unobserved
NextConcurrentRead ==
    \/ GetBusinessesSteps(1)
    \/ Return(1)
    \/ BulkImportSteps(2, {r \in BulkRequests : r.website /= None})
    \/ bulk_import_business_hours_error(2)
    \/ bulk_import_business_error(2)
    \/ Return(2)

SpecConcurrentRead == InitConcurrent /\ [][NextConcurrentRead]_vars

\* the feature proposals of the steps and of the import
ReviewedFeatures ==
    {<<FeatureProposal(1, 0)>>,
     <<FeatureProposal(2, 5), FeatureProposal(2, 5)>>,
     <<FeatureProposal(1, 1), FeatureProposal(2, 0)>>}

ReviewedImports ==
    {[BulkRow EXCEPT !.oh_monday = <<"09", ":", "00", "-", "17", ":", "00">>,
                     !.oh_tuesday = <<"09", ":", "00", "-", "17", ":", "00">>,
                     !.oh_sunday = S("closed"),
                     !.features = <<<<" ", "wifi", " ">>, S("wifi")>>]}

\* one client: feature proposals of the step and of the import, reviewed by
\* the external workflow and read back
NextReview ==
    \/ IdentitySteps(1)
    \/ LocationSteps(1, {r \in LocationRequests : r.longitude /= 0})
    \/ FeaturesSteps(1, ReviewedFeatures)
    \/ BulkImportSteps(1, ReviewedImports)
    \/ proposal_reviewed("approved")
    \/ get_businesses(1)
    \/ Return(1)

SpecReview == Init /\ [][NextReview]_vars

(***************************************************************************)
(* Properties                                                              *)
(***************************************************************************)
\* client 1 has the response of a request of this operation and has not
\* begun another
Completed(op) == pc[1] = "idle" /\ obs.last.op = op

LocationsOf(d, business_id) ==
    {l \in d["business_locations"] : l.business_id = business_id}

HasPrimaryLocation(d, business_id) ==
    \E l \in d["business_locations"] :
        l.business_id = business_id /\ l.location_index = 1

CategoryNamed(name) == \E c \in business_categories : c.category = name

\* C1: a bulk import is all-or-nothing.  Until it commits, and for good when
\* it fails at any step (category, geocoding, a storage error on any insert or
\* on the commit), the tables are what they were before the call and hold no
\* row the call wrote; when it succeeds, the tables are the ones before the
\* call plus all the rows it wrote, a business and its location among them.
C1_BulkImportAllOrNothing ==
    LET c == IF pc[1] \in {"idle", "return"} THEN obs.last ELSE call[1] IN
    c.op = "bulk_import_business" =>
        IF c.status = 200
        THEN /\ \A tb \in Tables :
                    /\ db[tb] = obs.pre[tb] \cup obs.written[tb]
                    /\ obs.pre[tb] \cap obs.written[tb] = {}
             /\ obs.written["businesses"] /= {}
             /\ obs.written["business_locations"] /= {}
        ELSE /\ db = obs.pre
             /\ \A tb \in Tables : db[tb] \cap obs.written[tb] = {}

\* a bulk import that failed on its commit, after every insert
C1_Witness ==
    /\ Completed("bulk_import_business")
    /\ obs.last.status = 500
    /\ \A tb \in Tables : obs.written[tb] /= {}

\* C2: when the category of the row exists and the geocoder finds no match or
\* fails, the bulk import answers 400 and every table is as before the call.
C2_GeocodeFailureIsValidation ==
    (/\ Completed("bulk_import_business")
     /\ CategoryNamed(obs.last.req.category)
     /\ \/ obs.last.geo.kind \in {"no_match", "request_error", "no_token"}
        \/ obs.last.req.address = S("zzzz-invalid"))
    => /\ obs.last.status = 400
       /\ db = obs.pre
       /\ Cardinality(db["businesses"]) = Cardinality(obs.pre["businesses"])

C2_Witness ==
    /\ Completed("bulk_import_business")
    /\ obs.last.req.category = S("Cafe")
    /\ obs.last.req.address = S("zzzz-invalid")
    /\ obs.last.geo.kind = "no_match"

\* C3: when no category has exactly the name of the row, the bulk import
\* answers 404, has not called the geocoder and has written no row.
C3_UnknownCategoryIsNotFound ==
    (/\ Completed("bulk_import_business")
     /\ ~ CategoryNamed(obs.last.req.category))
    => /\ obs.last.status = 404
       /\ obs.last.geocoded = 0
       /\ obs.written = EmptyTables
       /\ db = obs.pre

\* the name differs from a category's name by letter case only
C3_Witness ==
    /\ Completed("bulk_import_business")
    /\ obs.last.req.category = S("cafe")
    /\ obs.last.status = 404

\* C4: AddLocation for a business without a location succeeds and writes one
\* location row with the request's coordinates and name; AddLocation repeated
\* right after a successful one for the same business answers 400, and the
\* business keeps exactly the one row of the first call, unchanged.
C4_SecondAddLocationConflicts ==
    Completed("add_business_location") =>
        LET b == obs.last.business_id
            r == obs.last.req
        IN /\ (BusinessExists(obs.pre, b) /\ LocationsOf(obs.pre, b) = {}) =>
                 /\ obs.last.status = 200
                 /\ LocationsOf(db, b) =
                        {[id |-> obs.last.location_id, business_id |-> b,
                          longitude |-> r.longitude, latitude |-> r.latitude,
                          location_name |-> r.location_name,
                          location_index |-> 1, is_public |-> TRUE]}
           /\ obs.prev.op = "add_business_location" =>
                 /\ obs.last.status = 400
                 /\ db = obs.pre
                 /\ Cardinality(LocationsOf(db, b)) = 1
                 /\ \A l \in LocationsOf(db, b) : l.id = obs.prev.location_id

\* the second call asks for other coordinates than the first wrote
C4_Witness ==
    /\ Completed("add_business_location")
    /\ obs.prev.op = "add_business_location"
    /\ obs.prev.status = 200
    /\ \E l \in LocationsOf(db, obs.last.business_id) :
          l.latitude /= obs.last.req.latitude

\* C5: under any interleaving of the statements of two clients' AddLocation
\* and BulkImport requests, no business has two committed location rows with
\* location_index = 1.
C5_OnePrimaryLocation ==
    \A l1, l2 \in db["business_locations"] :
        (l1.business_id = l2.business_id /\ l1.location_index = 1
            /\ l2.location_index = 1) => l1 = l2

\* both clients passed the existence check and the store rejected the second
\* insert
C5_Witness ==
    \E p \in Procs :
        /\ pc[p] = "return"
        /\ call[p].op = "add_business_location"
        /\ call[p].error = "unique"

\* a time as the claim has it stored: ":00" appended when it has no seconds
ExpectedTime(t) == IF CountTok(t, ":") = 2 THEN t ELSE t \o <<":", "00">>

ExpectedHours(id, location_id, e) ==
    [id |-> id, location_id |-> location_id, day_of_week |-> e.day_of_week,
     open_time |-> IF e.is_closed \/ ~ Truthy(e.open_time)
                   THEN None ELSE ExpectedTime(e.open_time),
     close_time |-> IF e.is_closed \/ ~ Truthy(e.close_time)
                    THEN None ELSE ExpectedTime(e.close_time),
     is_closed |-> e.is_closed]

\* C6: after a successful SetOpeningHours the rows of the business's primary
\* location are the submitted entries, one new row per entry in their order
\* (times without seconds with ":00" appended, no times on a closed day), no
\* row the location had before remains, and no other location's row changed.
C6_SetOpeningHoursReplaces ==
    (Completed("add_business_opening_hours") /\ obs.last.status = 200) =>
        LET loc == obs.last.location_id
            entries == obs.last.req
            old == HoursOf(obs.pre, loc)
            new == HoursOf(db, loc)
        IN /\ \E l \in LocationsOf(obs.pre, obs.last.business_id) :
                 l.id = loc /\ l.location_index = 1
           /\ \A h \in new, o \in old : h.id /= o.id
           /\ Cardinality(new) = Len(entries)
           /\ \E base \in 0..MaxHourRows :
                 new = {ExpectedHours(base + i, loc, entries[i]) :
                            i \in 1..Len(entries)}
           /\ db["business_location_opening_hours"] \ new
                 = obs.pre["business_location_opening_hours"] \ old
           /\ \A tb \in Tables \ {"business_location_opening_hours"} :
                 db[tb] = obs.pre[tb]

\* the location had rows, and an entry gives a time without seconds
C6_Witness ==
    /\ Completed("add_business_opening_hours")
    /\ obs.last.status = 200
    /\ HoursOf(obs.pre, obs.last.location_id) /= {}
    /\ \E i \in 1..Len(obs.last.req) :
          /\ ~ obs.last.req[i].is_closed
          /\ Truthy(obs.last.req[i].open_time)
          /\ CountTok(obs.last.req[i].open_time, ":") = 1

\* C7: SetOpeningHours with no entries, for a business with a primary
\* location, succeeds and leaves the location without rows whatever it had;
\* repeated right after itself it leaves the tables as they were.
C7_EmptyReplaceIdempotent ==
    (/\ Completed("add_business_opening_hours")
     /\ obs.last.req = <<>>
     /\ BusinessExists(obs.pre, obs.last.business_id)
     /\ HasPrimaryLocation(obs.pre, obs.last.business_id))
    => /\ obs.last.status = 200
       /\ \A l \in LocationsOf(db, obs.last.business_id) :
             l.location_index = 1 => HoursOf(db, l.id) = {}
       /\ db = [obs.pre EXCEPT !["business_location_opening_hours"] =
                    @ \ HoursOf(obs.pre, obs.last.location_id)]
       /\ (obs.prev.op = "add_business_opening_hours" /\ obs.prev.entries = 0)
             => db = obs.pre

\* the empty replace repeated
C7_Witness ==
    /\ Completed("add_business_opening_hours")
    /\ obs.last.req = <<>>
    /\ obs.last.status = 200
    /\ obs.prev.op = "add_business_opening_hours"
    /\ obs.prev.entries = 0
    /\ obs.prev.status = 200

\* C8: when an entry of a SetOpeningHours request, at whatever position, has
\* a day_of_week outside 0..6 (and the business and its primary location
\* exist), the answer is 400 and every table is as before the call.
C8_InvalidDayRejectsBatch ==
    (/\ Completed("add_business_opening_hours")
     /\ BusinessExists(obs.pre, obs.last.business_id)
     /\ HasPrimaryLocation(obs.pre, obs.last.business_id)
     /\ \E i \in 1..Len(obs.last.req) : obs.last.req[i].day_of_week \notin 0..6)
    => /\ obs.last.status = 400
       /\ db = obs.pre

\* the invalid entry comes after a valid one that was inserted, and the
\* location had rows for the DELETE to remove
C8_Witness ==
    /\ Completed("add_business_opening_hours")
    /\ Len(obs.last.req) = 2
    /\ obs.last.req[1].day_of_week \in 0..6
    /\ obs.last.req[2].day_of_week \notin 0..6
    /\ HoursOf(obs.pre, obs.last.location_id) /= {}
    /\ obs.written["business_location_opening_hours"] /= {}

C10_OneRowPerLocationDay ==
    \A h1, h2 \in db["business_location_opening_hours"] :
        (h1.location_id = h2.location_id /\ h1.day_of_week = h2.day_of_week)
            => h1 = h2

\* C11: every committed opening-hours row has day_of_week in 0..6 and either
\* both times set with is_closed = false, or both times null with
\* is_closed = true.
C11_HoursRowWellFormed ==
    \A h \in db["business_location_opening_hours"] :
        /\ h.day_of_week \in 0..6
        /\ \/ h.open_time /= None /\ h.close_time /= None /\ ~ h.is_closed
           \/ h.open_time = None /\ h.close_time = None /\ h.is_closed

\* the ids of the businesses that rows of the tables d speak of
KnownBusinessIds(d) ==
    {b.id : b \in d["businesses"]}
        \cup {w.business_id : w \in d["business_web_links"]}
        \cup {g.business_id : g \in d["business_images"]}

SocialLinksOf(d, business_id) ==
    {w \in d["business_web_links"] : w.business_id = business_id}

LogoImagesOf(d, business_id) ==
    {g \in d["business_images"] :
        g.business_id = business_id /\ g.image_type = "logo" /\ g.image_index = 0}

\* C12: in every state every business has at most one social-links row and
\* at most one logo image row (type logo, index 0); a successful upsert for a
\* business that has the row already keeps the row's id and adds no row to
\* the table.
C12_UpsertKeepsOneRow ==
    /\ \A b \in KnownBusinessIds(db) :
          /\ Cardinality(SocialLinksOf(db, b)) <= 1
          /\ Cardinality(LogoImagesOf(db, b)) <= 1
    /\ (/\ Completed("add_business_social_links")
        /\ obs.last.status = 200
        /\ SocialLinksOf(obs.pre, obs.last.business_id) /= {})
       => /\ {w.id : w \in SocialLinksOf(db, obs.last.business_id)}
               = {w.id : w \in SocialLinksOf(obs.pre, obs.last.business_id)}
          /\ Cardinality(db["business_web_links"])
               = Cardinality(obs.pre["business_web_links"])
    /\ (/\ Completed("add_business_logo")
        /\ obs.last.status = 200
        /\ LogoImagesOf(obs.pre, obs.last.business_id) /= {})
       => /\ {g.id : g \in LogoImagesOf(db, obs.last.business_id)}
               = {g.id : g \in LogoImagesOf(obs.pre, obs.last.business_id)}
          /\ Cardinality(db["business_images"])
               = Cardinality(obs.pre["business_images"])

\* an upsert of other links than the stored ones, for a business whose row
\* the bulk import or an earlier upsert wrote
C12_Witness ==
    /\ Completed("add_business_social_links")
    /\ obs.last.status = 200
    /\ \E w \in SocialLinksOf(obs.pre, obs.last.business_id) :
          w.primary_website_url /= obs.last.req.primary_website_url
    /\ LogoImagesOf(db, obs.last.business_id) /= {}

\* C13: a successful UpsertSocialLinks (UpsertLogo) leaves the business with
\* one row that holds exactly the fields of the payload, null where the
\* payload is null; repeated right after itself with the same payload it
\* leaves every table as the first call left it.
C13_UpsertIdempotent ==
    /\ (Completed("add_business_social_links") /\ obs.last.status = 200) =>
          LET rows == SocialLinksOf(db, obs.last.business_id)
              r == obs.last.req
          IN /\ Cardinality(rows) = 1
             /\ \A w \in rows :
                   /\ w.primary_website_url = r.primary_website_url
                   /\ w.facebook_url = r.facebook_url
                   /\ w.instagram_url = r.instagram_url
                   /\ w.x_url = r.x_url
                   /\ w.tiktok_url = r.tiktok_url
             /\ (obs.prev.op = "add_business_social_links"
                    /\ obs.prev.payload = r) => db = obs.pre
    /\ (Completed("add_business_logo") /\ obs.last.status = 200) =>
          LET rows == LogoImagesOf(db, obs.last.business_id)
          IN /\ Cardinality(rows) = 1
             /\ \A g \in rows : g.url = obs.last.req.url
             /\ (obs.prev.op = "add_business_logo"
                    /\ obs.prev.payload = obs.last.req) => db = obs.pre

\* the same payload twice, with null fields
C13_Witness ==
    /\ Completed("add_business_social_links")
    /\ obs.last.status = 200
    /\ obs.prev.op = "add_business_social_links"
    /\ obs.prev.payload = obs.last.req
    /\ obs.last.req.primary_website_url = None
    /\ obs.last.req.facebook_url /= None

\* the business has a location row with location_index = 1 and is_public
HasPrimaryPublicLocation(d, business_id) ==
    \E l \in d["business_locations"] :
        l.business_id = business_id /\ l.location_index = 1 /\ l.is_public

\* the record of a business in a result of GetBusinesses, if it has one
Returned(result, business_id) ==
    business_id \in DOMAIN result /\ result[business_id] /= <<>>

SomeUrl(w) ==
    \/ w.primary_website_url /= None
    \/ w.facebook_url /= None
    \/ w.instagram_url /= None
    \/ w.x_url /= None
    \/ w.tiktok_url /= None

C15_SocialLinksPresentIffUrl ==
    Completed("get_businesses") =>
        \A b \in DOMAIN obs.last.result :
            Returned(obs.last.result, b) =>
                LET links == obs.last.result[b][1].socialLinks
                IN /\ (links /= <<>>) <=>
                          (\E w \in SocialLinksOf(db, b) : SomeUrl(w))
                   /\ links /= <<>> =>
                          \/ links[1].website /= None
                          \/ links[1].facebook /= None
                          \/ links[1].instagram /= None
                          \/ links[1].twitter /= None
                          \/ links[1].tiktok /= None

\* a returned business whose row has no URL
C15_Witness ==
    /\ Completed("get_businesses")
    /\ \E b \in DOMAIN obs.last.result :
          /\ Returned(obs.last.result, b)
          /\ obs.last.result[b][1].socialLinks = <<>>
          /\ \E w \in SocialLinksOf(db, b) : ~ SomeUrl(w)

\* C16: GetBusinesses answers 200, every record of its result is that of a
\* business with a location row with location_index = 1, is_public = true
\* and the record's coordinates, and a business without such a location has
\* no record.
C16_ReturnedHavePrimaryLocation ==
    Completed("get_businesses") =>
        /\ obs.last.status = 200
        /\ \A b \in DOMAIN obs.last.result :
              IF Returned(obs.last.result, b)
              THEN \E l \in db["business_locations"] :
                      /\ l.business_id = b
                      /\ l.location_index = 1
                      /\ l.is_public
                      /\ l.latitude = obs.last.result[b][1].latitude
                      /\ l.longitude = obs.last.result[b][1].longitude
              ELSE TRUE
        /\ \A b \in db["businesses"] :
              ~ HasPrimaryPublicLocation(db, b.id)
                  => ~ Returned(obs.last.result, b.id)

\* a business without a location, left out of a successful result
C16_Witness ==
    /\ Completed("get_businesses")
    /\ obs.last.status = 200
    /\ \E b \in db["businesses"] :
          /\ \A l \in db["business_locations"] : l.business_id /= b.id
          /\ ~ Returned(obs.last.result, b.id)

\* C17: the features of a record returned by GetBusinesses have an entry
\* only for an approved proposal of the business; the proposals written by
\* AddFeatureProposals and BulkImport are pending, so every returned record
\* has an empty features list.
C17_OnlyApprovedFeaturesVisible ==
    Completed("get_businesses") =>
        \A b \in DOMAIN obs.last.result :
            Returned(obs.last.result, b) =>
                LET features == obs.last.result[b][1].features
                IN /\ \A i \in 1..Len(features) :
                         \E r \in db["business_feature_proposals"] :
                            /\ r.business_id = b
                            /\ r.proposal_status = "approved"
                            /\ features[i].key = <<"feature_", r.feature_id>>
                   /\ features = <<>>

\* a returned business with a pending proposal
C17_Witness ==
    /\ Completed("get_businesses")
    /\ \E b \in DOMAIN obs.last.result :
          /\ Returned(obs.last.result, b)
          /\ obs.last.result[b][1].features = <<>>
          /\ \E r \in db["business_feature_proposals"] :
                r.business_id = b /\ r.proposal_status = "pending"

BusinessSteps ==
    {"add_business_location", "add_business_opening_hours",
     "add_business_social_links", "add_business_logo", "add_business_features"}

\* C19: AddLocation, SetOpeningHours, UpsertSocialLinks, UpsertLogo and
\* AddFeatureProposals for a business_id that no business has answer 404,
\* write no row and leave every table unchanged; no row refers to the absent
\* business.
C19_AbsentBusinessIsNotFound ==
    (/\ pc[1] = "idle"
     /\ obs.last.op \in BusinessSteps
     /\ \A b \in obs.pre["businesses"] : b.id /= obs.last.business_id)
    => /\ obs.last.status = 404
       /\ obs.written = EmptyTables
       /\ db = obs.pre
       /\ \A l \in db["business_locations"] : l.business_id /= obs.last.business_id
       /\ \A w \in db["business_web_links"] : w.business_id /= obs.last.business_id
       /\ \A g \in db["business_images"] : g.business_id /= obs.last.business_id
       /\ \A r \in db["business_feature_proposals"] :
             r.business_id /= obs.last.business_id

\* feature proposals for an absent business, when another business exists
C19_Witness ==
    /\ Completed("add_business_features")
    /\ obs.last.status = 404
    /\ db["businesses"] /= {}
    /\ \A b \in db["businesses"] : b.id /= obs.last.business_id

\* C20: AddFeatureProposals for an existing business answers 404 and inserts
\* nothing when a feature_id of the request is not in the catalog, wherever
\* it stands in the request; otherwise it answers 200 and adds one pending
\* proposal per entry of the request, with the entry's feature_id and score.
C20_FeaturesValidatedAsBatch ==
    (/\ Completed("add_business_features")
     /\ \E b \in obs.pre["businesses"] : b.id = obs.last.business_id)
    => LET r == obs.last.req
           new == db["business_feature_proposals"]
                      \ obs.pre["business_feature_proposals"]
       IN IF \E i \in 1..Len(r) :
                \A f \in business_features : f.id /= r[i].feature_id
          THEN /\ obs.last.status = 404
               /\ obs.written = EmptyTables
               /\ db = obs.pre
          ELSE /\ obs.last.status = 200
               /\ obs.pre["business_feature_proposals"]
                     \subseteq db["business_feature_proposals"]
               /\ Cardinality(new) = Len(r)
               /\ \E base \in 0..MaxProposals :
                     new = {[id |-> base + i,
                             business_id |-> obs.last.business_id,
                             feature_id |-> r[i].feature_id,
                             feature_score |-> r[i].feature_score,
                             proposal_status |-> "pending"] : i \in 1..Len(r)}
               /\ \A tb \in Tables \ {"business_feature_proposals"} :
                     db[tb] = obs.pre[tb]

\* the unknown feature_id comes after a known one
C20_Witness ==
    /\ Completed("add_business_features")
    /\ obs.last.status = 404
    /\ Len(obs.last.req) = 2
    /\ \E f \in business_features : f.id = obs.last.req[1].feature_id
    /\ \A f \in business_features : f.id /= obs.last.req[2].feature_id
    /\ \E b \in obs.pre["businesses"] : b.id = obs.last.business_id

\* the request of the onboarding scenario: Monday, "09:00" to "17:00"
ScenarioHours == <<HourEntry(1, T0900, T1700, FALSE)>>

\* GetBusinesses directly after a successful SetOpeningHours(ScenarioHours)
ScenarioRead ==
    /\ Completed("get_businesses")
    /\ obs.prev.op = "add_business_opening_hours"
    /\ obs.prev.status = 200
    /\ obs.prev.payload = ScenarioHours

\* C21: after CreateIdentity, AddLocation(id, lat, lon, name) and
\* SetOpeningHours(id, [Monday "09:00" to "17:00"]) have succeeded,
\* GetBusinesses returns a record for the business with its name, the
\* latitude and longitude of the location, and openingHours exactly
\* [{day "Monday", start "09:00:00", end "17:00:00"}].
C21_OnboardingScenario ==
    ScenarioRead =>
        \A b \in db["businesses"] :
            b.id = obs.prev.business_id =>
                \E l \in PrimaryLocations(db, b.id) :
                    /\ Returned(obs.last.result, b.id)
                    /\ LET rec == obs.last.result[b.id][1]
                       IN /\ rec.name = b.name
                          /\ rec.latitude = l.latitude
                          /\ rec.longitude = l.longitude
                          /\ rec.openingHours =
                                <<[day |-> "Monday",
                                   start |-> <<"09", ":", "00", ":", "00">>,
                                   end |-> <<"17", ":", "00", ":", "00">>]>>

\* the day columns with the day_of_week the parser is to give them
DayCodes ==
    {<<"oh_monday", 1>>, <<"oh_tuesday", 2>>, <<"oh_wednesday", 3>>,
     <<"oh_thursday", 4>>, <<"oh_friday", 5>>, <<"oh_saturday", 6>>,
     <<"oh_sunday", 0>>}

Parsed == pc[1] = "return" /\ call[1].op = "parse_opening_hours_csv"

\* the entries of the parser's output for one day
EntriesOfDay(out, day) ==
    {i \in 1..Len(out) : out[i].day_of_week = day}

\* C22: the parser treats each of the seven day inputs on its own:
\* "09:00-17:00" gives {open "09:00:00", close "17:00:00", is_closed false};
\* "closed" in any letter case and with surrounding blanks gives
\* {is_closed true, open null, close null}; an empty, blank or absent input
\* gives no entry.  The output has at most one entry per day, Monday = 1 ..
\* Saturday = 6 and Sunday = 0.
C22_ParserPerDay ==
    Parsed =>
        LET r == call[1].req
            out == call[1].hours
        IN /\ \A i \in 1..Len(out) : out[i].day_of_week \in 0..6
           /\ \A dc \in DayCodes :
                LET s == r[dc[1]]
                    at == EntriesOfDay(out, dc[2])
                IN /\ Cardinality(at) <= 1
                   /\ s = <<"09", ":", "00", "-", "17", ":", "00">> =>
                        \E i \in at :
                            /\ out[i].open_time = <<"09", ":", "00", ":", "00">>
                            /\ out[i].close_time = <<"17", ":", "00", ":", "00">>
                            /\ out[i].is_closed = FALSE
                   /\ s \in {S("closed"), <<" ", "Closed", " ">>, S("CLOSED")} =>
                        \E i \in at :
                            /\ out[i].open_time = None
                            /\ out[i].close_time = None
                            /\ out[i].is_closed = TRUE
                   /\ s \in {None, <<>>, <<" ">>} => at = {}

\* Monday open, Sunday closed in capitals with blanks around, the rest absent
C22_Witness ==
    /\ Parsed
    /\ call[1].req.oh_monday = <<"09", ":", "00", "-", "17", ":", "00">>
    /\ call[1].req.oh_sunday = <<" ", "Closed", " ">>
    /\ Len(call[1].hours) = 2
    /\ call[1].hours[1].day_of_week = 1
    /\ call[1].hours[2].day_of_week = 0

\* day strings that are neither "HH:MM-HH:MM" nor "closed": no dash, several
\* dashes, text that is no time on either side of one dash
MalformedDayStrings ==
    {S("abc"),
     <<"09", ":", "00", "-", "12", ":", "00", "-", "13", ":", "00">>,
     <<"abc", "-", "def">>}

WellFormedDayStrings ==
    {<<"09", ":", "00", "-", "17", ":", "00">>, S("closed"), <<" ", "Closed">>}

\* a BulkImport whose category was found and whose address was geocoded
ImportedPastGeocoding ==
    /\ Completed("bulk_import_business")
    /\ obs.last.status \notin {400, 404}

\* C23: BulkImport skips a day string that is neither "HH:MM-HH:MM" nor
\* "closed" (no dash, several dashes, or text that is no time on either side
\* of one dash): the import succeeds, no opening-hours row is written for
\* that day, and the other days are imported.
C23_MalformedDaySkipped ==
    ImportedPastGeocoding =>
        /\ obs.last.status = 200
        /\ \A dc \in DayCodes :
              LET s == obs.last.req[dc[1]]
                  rows == {h \in db["business_location_opening_hours"]
                                    \ obs.pre["business_location_opening_hours"] :
                              h.day_of_week = dc[2]}
              IN /\ s \in MalformedDayStrings => rows = {}
                 /\ s \in WellFormedDayStrings => Cardinality(rows) = 1

\* the catalog feature a name of the import sheet stands for, 0 for a name
\* that stands for none
FeatureIdNamed(name) ==
    CASE name = S("wifi") -> 1
      [] name = <<" ", "wifi", " ">> -> 1
      [] name = S("parking") -> 2
      [] OTHER -> 0

\* a BulkImport whose category was found, whose address was geocoded and
\* whose day strings the store has taken
ImportedPastHours ==
    /\ Completed("bulk_import_business")
    /\ obs.last.geo.kind = "ok"
    /\ \A dc \in DayCodes : obs.last.req[dc[1]] /= <<"abc", "-", "def">>

\* C24: BulkImport resolves feature names against the catalog: a name that
\* matches no feature, or is empty or blank, is skipped and does not fail the
\* import; each name that matches gives a pending proposal for the new
\* business; the import commits whether or not a name matched.
C24_FeatureNamesResolved ==
    ImportedPastHours =>
        LET names == obs.last.req.features
            matched == {i \in 1..Len(names) : FeatureIdNamed(names[i]) /= 0}
            new == db["business_feature_proposals"]
                       \ obs.pre["business_feature_proposals"]
        IN /\ obs.last.status = 200
           /\ obs.last.commits = 1
           /\ \E b \in db["businesses"] \ obs.pre["businesses"] :
                 b.id = obs.last.business_id
           /\ Cardinality(new) = Cardinality(matched)
           /\ \A i \in matched :
                 \E r \in new : r.feature_id = FeatureIdNamed(names[i])
           /\ \A r \in new :
                 /\ r.business_id = obs.last.business_id
                 /\ r.proposal_status = "pending"
                 /\ \E i \in matched : r.feature_id = FeatureIdNamed(names[i])

\* one name matches, one is unknown and one is empty: one proposal
C24_Witness ==
    /\ ImportedPastHours
    /\ obs.last.req.features = <<S("wifi"), S("sauna"), <<>>>>
    /\ obs.last.status = 200
    /\ \E r \in db["business_feature_proposals"] :
          r.feature_id = 1 /\ r.business_id = obs.last.business_id

\* the text is neither null nor empty
NonEmpty(u) == u /= None /\ u /= <<>>

\* the rows of a table that the last request has added
Added(tb) == db[tb] \ obs.pre[tb]

\* C25: a successful BulkImport writes exactly one business (not verified, in
\* the category the name resolved to) and exactly one location for it
\* (location_index 1, public); it writes a social-links row for the business
\* if and only if one of the five URLs of the row is non-empty, and a logo
\* image row (type 'logo', index 0) if and only if the logo URL is non-empty.
C25_ImportWritesOptionalRows ==
    (Completed("bulk_import_business") /\ obs.last.status = 200) =>
        LET r == obs.last.req
            b == obs.last.business_id
        IN /\ Cardinality(Added("businesses")) = 1
           /\ \A row \in Added("businesses") :
                 /\ row.id = b
                 /\ row.name = r.name
                 /\ row.is_verified = FALSE
                 /\ \E c \in business_categories :
                       c.category = r.category /\ c.id = row.category_id
           /\ Cardinality(Added("business_locations")) = 1
           /\ \A l \in Added("business_locations") :
                 l.business_id = b /\ l.location_index = 1 /\ l.is_public = TRUE
           /\ Cardinality(Added("business_web_links")) =
                 (IF \E u \in {r.website, r.x_url, r.instagram_url,
                               r.facebook_url, r.tiktok_url} : NonEmpty(u)
                  THEN 1 ELSE 0)
           /\ \A w \in Added("business_web_links") :
                 /\ w.business_id = b
                 /\ w.primary_website_url = r.website
                 /\ w.x_url = r.x_url
                 /\ w.instagram_url = r.instagram_url
                 /\ w.facebook_url = r.facebook_url
                 /\ w.tiktok_url = r.tiktok_url
           /\ Cardinality(Added("business_images")) =
                 (IF NonEmpty(r.logo_url) THEN 1 ELSE 0)
           /\ \A g \in Added("business_images") :
                 /\ g.business_id = b
                 /\ g.image_type = "logo"
                 /\ g.image_index = 0
                 /\ g.url = r.logo_url

\* five empty URLs and a logo: a logo row and no social-links row
C25_Witness ==
    /\ Completed("bulk_import_business")
    /\ obs.last.status = 200
    /\ obs.last.req.website = <<>>
    /\ obs.last.req.tiktok_url = <<>>
    /\ Added("business_web_links") = {}
    /\ Cardinality(Added("business_images")) = 1

\* C26: no operation of the core deletes a business or changes the name,
\* category or verified flag of one: every committed business row is
\* still there, unchanged, after every step of every call (CreateIdentity,
\* AddLocation, SetOpeningHours, UpsertSocialLinks, UpsertLogo,
\* AddFeatureProposals, BulkImport, GetBusinesses), successful or failed.
C26_BusinessesOnlyGrow ==
    [][\A b \in db["businesses"] : b \in db'["businesses"]]_vars

\* opening hours have been replaced for a business that is still there
C26_Witness ==
    /\ pc[1] = "return"
    /\ call[1].op = "add_business_opening_hours"
    /\ call[1].status = 200
    /\ \E b \in db["businesses"] : b.id = call[1].business_id

\* C27: an onboarding step that fails on a storage error, also after some
\* of its writes (the k-th insert of AddFeatureProposals, an insert of
\* SetOpeningHours after the delete), answers 500 and commits none of its
\* writes: the tables are what they were before the call.
C27_StepsAtomic ==
    (/\ pc[1] = "idle"
     /\ obs.last.op \in BusinessSteps \cup {"create_business_identity"}
     /\ obs.last.error = "storage")
    => /\ obs.last.status = 500
       /\ obs.last.commits = 0
       /\ db = obs.pre

\* the second insert of AddFeatureProposals has failed after the first
C27_Witness ==
    /\ Completed("add_business_features")
    /\ obs.last.status = 500
    /\ obs.written["business_feature_proposals"] /= {}
    /\ db = obs.pre

\* C28: every operation that has acquired a database connection has closed
\* it when it returns, on every path: success, 404, 409 and 400, storage
\* failure, and also when the rollback or the reset of autocommit in the
\* cleanup fails.
C28_ConnectionReleased ==
    \A p \in Procs : pc[p] = "idle" => call[p].conn /= "open"

\* the most rows one call can insert into a table, one per write statement
WritesOf(c, tb) ==
    CASE c.op = "bulk_import_business" /\ tb = "business_location_opening_hours" -> 7
      [] c.op = "bulk_import_business" /\ tb = "business_feature_proposals" ->
            Len(c.req.features)
      [] c.op = "bulk_import_business" -> 1
      [] c.op = "create_business_identity" /\ tb = "businesses" -> 1
      [] c.op = "add_business_location" /\ tb = "business_locations" -> 1
      [] c.op = "add_business_opening_hours"
            /\ tb = "business_location_opening_hours" -> Len(c.req)
      [] OTHER -> 0

\* C29: nothing is tried again: within one call the geocoder is invoked at
\* most once, the transaction is committed at most once and every write
\* statement is executed at most once; a call that has failed has committed
\* nothing, has written nothing more, and answers with the error.
C29_NoRetry ==
    /\ call[1].geocoded <= 1
    /\ call[1].commits <= 1
    /\ call[1].op /= "bulk_import_business" => call[1].geocoded = 0
    /\ pc[1] /= "idle" =>
          \A tb \in Tables : Cardinality(obs.written[tb]) <= WritesOf(call[1], tb)
    /\ (pc[1] = "return" /\ call[1].status /= 200) =>
          /\ call[1].status \in {400, 404, 409, 500}
          /\ call[1].error /= "none"
          /\ call[1].commits = 0
          /\ db = obs.pre

\* a BulkImport whose geocoding has failed, after one request to the geocoder
C29_Witness ==
    /\ pc[1] = "return"
    /\ call[1].op = "bulk_import_business"
    /\ call[1].status = 400
    /\ call[1].geocoded = 1
    /\ call[1].commits = 0

\* the name of a weekday, 0 = Sunday .. 6 = Saturday
WeekdayName(day) ==
    <<"Sunday", "Monday", "Tuesday", "Wednesday", "Thursday", "Friday",
      "Saturday">>[day + 1]

\* the openingHours entry that an open hours row is to give
ExpectedOpening(h) ==
    [day |-> WeekdayName(h.day_of_week),
     start |-> IF h.open_time = None THEN <<"9", ":", "00">> ELSE h.open_time,
     end |-> IF h.close_time = None THEN <<"17", ":", "00">> ELSE h.close_time]

\* C30: in GetBusinesses the openingHours of a business have one entry for
\* each opening-hours row of its primary public location with is_closed =
\* false and none for a row with is_closed = true; the day of an entry is the
\* weekday name with 0 = Sunday .. 6 = Saturday, and a missing open or close
\* time is reported as "9:00" or "17:00".  Rows of other locations give no
\* entry.
C30_OpeningHoursView ==
    Completed("get_businesses") =>
        \A b \in db["businesses"] :
            Returned(obs.last.result, b.id) =>
                LET shown == obs.last.result[b.id][1].openingHours
                    open == {h \in db["business_location_opening_hours"] :
                               /\ ~ h.is_closed
                               /\ \E l \in db["business_locations"] :
                                     /\ l.id = h.location_id
                                     /\ l.business_id = b.id
                                     /\ l.location_index = 1
                                     /\ l.is_public}
                IN /\ Len(shown) = Cardinality(open)
                   /\ \A h \in open :
                         \E i \in 1..Len(shown) : shown[i] = ExpectedOpening(h)
                   /\ \A i \in 1..Len(shown) :
                         \E h \in open : shown[i] = ExpectedOpening(h)

\* a Sunday row without times, shown as "9:00" to "17:00", beside a Saturday
C30_Witness ==
    /\ Completed("get_businesses")
    /\ \E b \in db["businesses"] :
          /\ Returned(obs.last.result, b.id)
          /\ Len(obs.last.result[b.id][1].openingHours) = 2
          /\ obs.last.result[b.id][1].openingHours[1] =
                [day |-> "Sunday", start |-> <<"9", ":", "00">>,
                 end |-> <<"17", ":", "00">>]

\* the approved proposals of a business among the rows d
Approved(d, business_id) ==
    {r \in d["business_feature_proposals"] :
        r.business_id = business_id /\ r.proposal_status = "approved"}

\* C31: in GetBusinesses every approved proposal of a business gives a
\* feature entry with the key "feature_<feature id>"; its value is the score
\* of the proposal when the score is a number other than zero, and the
\* boolean true when the score is zero or null.
C31_FeatureValueIsScoreOrTrue ==
    Completed("get_businesses") =>
        \A l \in obs.pre["business_locations"] :
            \A r \in Approved(obs.pre, l.business_id) :
                /\ obs.last.status = 200
                /\ Returned(obs.last.result, l.business_id)
                /\ \E k \in 1..Len(obs.last.result[l.business_id][1].features) :
                      LET entry == obs.last.result[l.business_id][1].features[k]
                      IN /\ entry.key = <<"feature_", r.feature_id>>
                         /\ entry.value = IF r.feature_score = 0
                                          THEN [type |-> "bool", repr |-> "True"]
                                          ELSE [type |-> "int",
                                                repr |-> ToString(r.feature_score)]

\* C32: referential integrity holds in every reachable state, under any
\* sequence or interleaving of the operations: a location row refers to an
\* existing business, an opening-hours row to an existing location, a
\* social-links row and a logo row to an existing business, and a feature
\* proposal to an existing business and an existing feature of the catalog.
C32_ReferentialIntegrity ==
    /\ \A l \in db["business_locations"] : BusinessExists(db, l.business_id)
    /\ \A h \in db["business_location_opening_hours"] :
          \E l \in db["business_locations"] : l.id = h.location_id
    /\ \A w \in db["business_web_links"] : BusinessExists(db, w.business_id)
    /\ \A g \in db["business_images"] : BusinessExists(db, g.business_id)
    /\ \A r \in db["business_feature_proposals"] :
          /\ BusinessExists(db, r.business_id)
          /\ \E f \in business_features : f.id = r.feature_id

\* every table has a row
C32_Witness ==
    \A tb \in Tables : db[tb] /= {}

\* the request of p succeeds in this step
Succeeds(p, op) ==
    /\ call[p].op = op
    /\ pc[p] /= "return"
    /\ pc'[p] = "return"
    /\ call'[p].status = 200

\* C33: the onboarding steps are ordered.  A SetOpeningHours for business b
\* succeeds only when a primary location of b and b itself were committed
\* before (by AddLocation, or by the BulkImport that created b); opening-hours
\* rows appear only for a location committed earlier or, in a BulkImport, with
\* it; and a location appears only for a business committed earlier or, in a
\* BulkImport, with it.
C33_StepsOrdered ==
    [][/\ \A p \in Procs :
             Succeeds(p, "add_business_opening_hours") =>
                 /\ BusinessExists(db, call[p].business_id)
                 /\ \E l \in db["business_locations"] :
                       /\ l.business_id = call[p].business_id
                       /\ l.location_index = 1
                       /\ l.id = call'[p].location_id
       /\ \A h \in db'["business_location_opening_hours"]
                     \ db["business_location_opening_hours"] :
             \/ \E l \in db["business_locations"] : l.id = h.location_id
             \/ \E p \in Procs :
                   /\ Succeeds(p, "bulk_import_business")
                   /\ \E l \in db'["business_locations"] : l.id = h.location_id
       /\ \A l \in db'["business_locations"] \ db["business_locations"] :
             \/ BusinessExists(db, l.business_id)
             \/ \E p \in Procs :
                   /\ Succeeds(p, "bulk_import_business")
                   /\ BusinessExists(db', l.business_id)]_vars

\* a SetOpeningHours has succeeded and its rows are stored
C33_Witness ==
    \E p \in Procs :
        /\ pc[p] = "return"
        /\ call[p].op = "add_business_opening_hours"
        /\ call[p].status = 200
        /\ HoursOf(db, call[p].location_id) /= {}

\* the opening-hours rows of the primary public location of a business that
\* are not closed
OpenHours(d, business_id) ==
    {h \in d["business_location_opening_hours"] :
        /\ ~ h.is_closed
        /\ \E l \in d["business_locations"] :
              /\ l.id = h.location_id
              /\ l.business_id = business_id
              /\ l.location_index = 1
              /\ l.is_public}

\* C34: the merge of GetBusinesses multiplies no rows.  A business id has at
\* most one record in the result, and the record of a business with m
\* approved proposals and n opening-hours rows that are not closed has m
\* feature entries and n openingHours entries.
C34_NoRowMultiplication ==
    Completed("get_businesses") /\ obs.last.status = 200 =>
        /\ \A i, j \in DOMAIN obs.last.result :
              /\ Returned(obs.last.result, i)
              /\ Returned(obs.last.result, j)
              /\ obs.last.result[i][1].id = obs.last.result[j][1].id
              => i = j
        /\ \A b \in obs.pre["businesses"] :
              Returned(obs.last.result, b.id) =>
                  /\ obs.last.result[b.id][1].id = b.id
                  /\ Len(obs.last.result[b.id][1].features)
                        = Cardinality(Approved(obs.pre, b.id))
                  /\ Len(obs.last.result[b.id][1].openingHours)
                        = Cardinality(OpenHours(obs.pre, b.id))

\* a record with two feature entries and two openingHours entries
C34_Witness ==
    /\ Completed("get_businesses")
    /\ obs.last.status = 200
    /\ \E b \in obs.pre["businesses"] :
          /\ Returned(obs.last.result, b.id)
          /\ Cardinality(Approved(obs.pre, b.id)) = 2
          /\ Cardinality(OpenHours(obs.pre, b.id)) = 2
          /\ Len(obs.last.result[b.id][1].features) = 2
          /\ Len(obs.last.result[b.id][1].openingHours) = 2

\* C35: the read view is complete.  Every business that has a primary public
\* location has a record in the result of GetBusinesses, whatever the stored
\* coordinates are (a latitude or longitude of 0 included), and also when it
\* has no social links, no opening hours, no logo and no approved proposal:
\* the record then has no socialLinks, empty lists and a null logo.
C35_ReadViewComplete ==
    Completed("get_businesses") =>
        \A b \in db["businesses"] :
            HasPrimaryPublicLocation(db, b.id) =>
                /\ obs.last.status = 200
                /\ Returned(obs.last.result, b.id)
                /\ LET record == obs.last.result[b.id][1]
                   IN /\ WebLinksOf(db, b.id) = {} => record.socialLinks = <<>>
                      /\ LogosOf(db, b.id) = {} => record.logo = None
                      /\ OpenHours(db, b.id) = {} => record.openingHours = <<>>
                      /\ Approved(db, b.id) = {} => record.features = <<>>

\* the rows are the entries of the request, one row for each entry
RowsOfRequest(rows, req) ==
    /\ Cardinality(rows) = Len(req)
    /\ \A i \in 1..Len(req) :
          \E h \in rows : h = ExpectedHours(h.id, h.location_id, req[i])
    /\ \A h \in rows :
          \E i \in 1..Len(req) : h = ExpectedHours(h.id, h.location_id, req[i])

\* C36: when two SetOpeningHours calls for one business run concurrently,
\* each deleting, inserting and committing in a transaction of its own, the
\* opening-hours rows of the location after the commits are the entries of
\* one of the two requests, never the rows of both.
C36_ConcurrentReplaceIsOneRequest ==
    \A l \in db["business_locations"] :
        \E req \in ConcurrentHours \cup {<<>>} :
            RowsOfRequest(HoursOf(db, l.id), req)

\* C37: when two UpsertSocialLinks calls, or two UpsertLogo calls, for a
\* business that has no such row yet run concurrently, each with its check,
\* its insert or update and its commit as separate steps, the business has
\* at most one social-links row and at most one logo row afterwards.
C37_ConcurrentUpsertOneRow ==
    \A b \in BusinessIds :
        /\ Cardinality({w.id : w \in WebLinksOf(db, b)}) <= 1
        /\ Cardinality({g.id : g \in LogosOf(db, b)}) <= 1

\* C38: a GetBusinesses that runs its five queries one after another while
\* writers run returns no data of a transaction that is uncommitted or rolled
\* back.  A business of a BulkImport that rolls back is never in the result;
\* a business of a BulkImport that commits is absent from the result or
\* present with the location it was imported with, never without coordinates.
C38_ReadsCommittedOnly ==
    \A p \in Procs :
        pc[p] = "return" /\ call[p].op = "get_businesses" /\ call[p].status = 200 =>
            \A i \in DOMAIN call[p].result :
                Returned(call[p].result, i) =>
                    LET record == call[p].result[i][1]
                    IN /\ \E b \in db["businesses"] :
                             b.id = i /\ b.name = record.name
                       /\ \E l \in db["business_locations"] :
                             /\ l.business_id = i
                             /\ l.latitude = record.latitude
                             /\ l.longitude = record.longitude
                             /\ l.location_name = record.description
                       /\ record.latitude /= 0
                       /\ record.longitude /= 0
                       /\ record.logo /= None =>
                             \E g \in db["business_images"] :
                                g.business_id = i /\ g.url = record.logo
                       /\ record.socialLinks /= <<>> =>
                             \E w \in db["business_web_links"] : w.business_id = i
                       /\ record.openingHours /= <<>> =>
                             \E h \in db["business_location_opening_hours"] :
                                \E l \in db["business_locations"] :
                                   l.id = h.location_id /\ l.business_id = i

\* the reader returns the imported business with its coordinates while the
\* import, committed, has not yet answered
C38_Witness ==
    /\ pc[1] = "return"
    /\ call[1].op = "get_businesses"
    /\ call[1].status = 200
    /\ \E i \in DOMAIN call[1].result :
          /\ Returned(call[1].result, i)
          /\ call[1].result[i][1].longitude = 1
    /\ pc[2] = "return"
    /\ call[2].op = "bulk_import_business"
    /\ call[2].status = 200

\* the business was created by a BulkImport (the names of the import rows are
\* not names of identity requests)
Imported(d, business_id) ==
    \E b \in d["businesses"] :
        b.id = business_id /\ \E r \in BulkRequests : r.name = b.name

\* C39: the steps and the import work on the same state.  For a business b
\* that a BulkImport has created, AddLocation(b) fails with the conflict
\* error and adds no location, and a successful SetOpeningHours(b, entries)
\* leaves the location of the import with the rows of entries and none of
\* the rows the import wrote.
C39_StepsAfterImport ==
    /\ (Completed("add_business_location")
        /\ Imported(obs.pre, obs.last.business_id)) =>
           /\ obs.last.status = 400
           /\ obs.last.error = "conflict"
           /\ db = obs.pre
           /\ Cardinality(LocationsOf(db, obs.last.business_id)) = 1
    /\ (Completed("add_business_opening_hours")
        /\ Imported(obs.pre, obs.last.business_id)) =>
           /\ obs.last.status \in {200, 400}
           /\ obs.last.status = 400 => db = obs.pre
           /\ obs.last.status = 200 =>
                 /\ \E l \in LocationsOf(obs.pre, obs.last.business_id) :
                       l.id = obs.last.location_id
                 /\ RowsOfRequest(HoursOf(db, obs.last.location_id), obs.last.req)
                 /\ HoursOf(db, obs.last.location_id)
                       \cap HoursOf(obs.pre, obs.last.location_id) = {}
                 /\ db["business_location_opening_hours"]
                          \ HoursOf(db, obs.last.location_id)
                       = obs.pre["business_location_opening_hours"]
                          \ HoursOf(obs.pre, obs.last.location_id)

\* both cases: the import wrote hours and SetOpeningHours has replaced them
C39_Witness ==
    /\ Completed("add_business_opening_hours")
    /\ Imported(obs.pre, obs.last.business_id)
    /\ obs.last.status = 200
    /\ HoursOf(obs.pre, obs.last.location_id) /= {}
    /\ HoursOf(db, obs.last.location_id) /= {}

\* C40: in a record returned by GetBusinesses no two feature entries have
\* the same key "feature_<id>", after any AddFeatureProposals and BulkImport
\* calls (repeated calls and requests that name a feature more than once
\* included) and the approval of any of the proposals.
C40_FeatureKeysUnique ==
    Completed("get_businesses") /\ obs.last.status = 200 =>
        \A b \in DOMAIN obs.last.result :
            Returned(obs.last.result, b) =>
                LET features == obs.last.result[b][1].features
                IN \A i, j \in 1..Len(features) :
                      features[i].key = features[j].key => i = j

====
